---- MODULE Spec2Model ----
(***************************************************************************)
(* Model of the fhevm-react-template repository:                           *)
(*   - the PrivateRentalMatching contract (src/contracts/README.md),       *)
(*   - the FHEVM SDK core: the client registry initFhevm/getFhevmClient    *)
(*     and encrypt with its byte-packing helpers, decrypt, publicDecrypt   *)
(*     and userDecrypt (src/packages/fhevm-sdk/src/core/index.ts),         *)
(*   - the React adapter: FhevmProvider, useFhevmContext, useFhevm,        *)
(*     useEncrypt and useDecrypt (src/packages/fhevm-sdk/src/react).       *)
(***************************************************************************)
EXTENDS Integers, Sequences, FiniteSets, TLC

(***************************************************************************)
(* Bounds of the model.                                                    *)
(***************************************************************************)
\* listings and requests, together, that may be created in one behaviour
MaxRecords == 3
\* initFhevm calls made in one behaviour
MaxCalls == 3
\* calls made through the hooks in one behaviour
MaxHookCalls == 2
\* clients created, and encrypt calls made on them, in one behaviour
MaxEncryptCalls == 2

VARIABLES
    \* PrivateRentalMatching storage
    owner, listingIdCounter, requestIdCounter, matchCounter,
    isPaused, isPauserAddress,
    listings, requests, matches, userListings, userRequests,
    \* SDK client registry: the module variable, the client objects created
    \* and the initFhevm calls made so far
    globalInstance, clients, calls,
    \* SDK encrypt: the call awaiting performEncryption and the last outcome;
    \* the encrypt calls made on the client objects that initFhevm returned
    encrypting, encrypted, encryptCalls,
    \* SDK decrypt, publicDecrypt, userDecrypt: the call awaiting the
    \* gateway's response and the last outcome
    decrypting, decrypted,
    \* FhevmProvider: the mounted instance's state and its initialize() runs
    \* awaiting initFhevm
    provider, attempts,
    \* hooks: the last useFhevm() invocation, the state of a useEncrypt and of
    \* a useDecrypt instance, and the calls made through them
    hookRead, encryptHook, decryptHook, hookCalls,
    \* lifecycle of the components using the hooks: whether the component
    \* holding each hook instance is mounted, and the state updates a settling
    \* call issued on an instance after it was unmounted
    hookMounted, lateUpdates

contractVars == <<owner, listingIdCounter, requestIdCounter, matchCounter,
                  isPaused, isPauserAddress,
                  listings, requests, matches, userListings, userRequests>>
registryVars == <<globalInstance, clients, calls>>
encryptVars == <<encrypting, encrypted, encryptCalls>>
decryptVars == <<decrypting, decrypted>>
providerVars == <<provider, attempts>>
hookVars == <<hookRead, encryptHook, decryptHook, hookCalls>>
lifecycleVars == <<hookMounted, lateUpdates>>
reactVars == <<providerVars, hookVars, lifecycleVars>>
vars == <<contractVars, registryVars, encryptVars, decryptVars, reactVars>>

\* no client (client objects are numbered from 1)
Null == 0

(***************************************************************************)
(* Arbitrary-precision integers (JavaScript BigInt, Solidity uint32).      *)
(* A magnitude is a little-endian sequence of base-10^4 limbs without a    *)
(* most-significant zero limb; zero is the empty sequence.  A BigInt is a  *)
(* record [neg, mag]; a negative BigInt has a non-zero magnitude.          *)
(***************************************************************************)
Base == 10 ^ 4

RECURSIVE Norm(_)
Norm(s) ==
    IF s = <<>> THEN <<>>
    ELSE IF s[Len(s)] = 0 THEN Norm(SubSeq(s, 1, Len(s) - 1))
    ELSE s

\* the magnitude of a literal written most-significant limb first
Lit(limbs) == Norm([i \in 1..Len(limbs) |-> limbs[Len(limbs) + 1 - i]])

RECURSIVE MagCmpFrom(_, _, _)
MagCmpFrom(a, b, i) ==
    IF i = 0 THEN 0
    ELSE IF a[i] < b[i] THEN -1
    ELSE IF a[i] > b[i] THEN 1
    ELSE MagCmpFrom(a, b, i - 1)

\* -1, 0, 1 as a < b, a = b, a > b
MagCmp(a, b) ==
    IF Len(a) < Len(b) THEN -1
    ELSE IF Len(a) > Len(b) THEN 1
    ELSE MagCmpFrom(a, b, Len(a))

\* long division of a magnitude by a small divisor, most significant limb first;
\* the result is <<quotient limbs (unnormalised), remainder>>
RECURSIVE MagDivFrom(_, _, _, _, _)
MagDivFrom(a, d, i, carry, q) ==
    IF i = 0 THEN <<q, carry>>
    ELSE LET cur == carry * Base + a[i]
         IN MagDivFrom(a, d, i - 1, cur % d, <<cur \div d>> \o q)

MagDivSmall(a, d) == Norm(MagDivFrom(a, d, Len(a), 0, <<>>)[1])
MagModSmall(a, d) == MagDivFrom(a, d, Len(a), 0, <<>>)[2]

\* a * m + c for small m and c
RECURSIVE MagMulAddFrom(_, _, _, _)
MagMulAddFrom(a, m, c, i) ==
    IF i > Len(a) THEN (IF c = 0 THEN <<>> ELSE <<c % Base>> \o MagMulAddFrom(a, m, c \div Base, i))
    ELSE LET cur == a[i] * m + c
         IN <<cur % Base>> \o MagMulAddFrom(a, m, cur \div Base, i + 1)

MagMulAdd(a, m, c) == Norm(MagMulAddFrom(a, m, c, 1))

\* a - 1 for a non-zero magnitude
RECURSIVE MagDecFrom(_, _)
MagDecFrom(a, i) ==
    IF a[i] > 0 THEN [a EXCEPT ![i] = a[i] - 1]
    ELSE MagDecFrom([a EXCEPT ![i] = Base - 1], i + 1)

MagDec(a) == Norm(MagDecFrom(a, 1))

BigOf(neg, mag) == [neg |-> neg /\ mag # <<>>, mag |-> mag]

\* x >= lo and x <= hi on BigInts with non-negative lo, hi magnitudes
BigGe0(x) == ~x.neg
BigLeMag(x, hi) == x.neg \/ MagCmp(x.mag, hi) <= 0

\* BigInt x & 0xFFn: the low byte of the two's complement of x
BigAndFF(x) ==
    LET r == MagModSmall(x.mag, 256)
    IN IF x.neg THEN (256 - r) % 256 ELSE r

\* BigInt x >> 8n: floor(x / 256)
BigShr8(x) ==
    IF x.neg THEN BigOf(TRUE, MagDivSmall(MagMulAdd(x.mag, 1, 255), 256))
    ELSE BigOf(FALSE, MagDivSmall(x.mag, 256))

(***************************************************************************)
(* SDK core: encrypt and its helpers.                                      *)
(***************************************************************************)
FheTypes == {"euint8", "euint16", "euint32", "euint64", "euint128", "euint256",
             "ebool", "eaddress"}

\* JavaScript values of type number | bigint | boolean.  A number that is not
\* an integer (1.5, NaN) has integral = FALSE and no BigInt.
BigIntValue(neg, mag) ==
    [kind |-> "bigint", big |-> BigOf(neg, mag), integral |-> TRUE, bool |-> FALSE]
NumberValue(neg, mag) ==
    [kind |-> "number", big |-> BigOf(neg, mag), integral |-> TRUE, bool |-> FALSE]
NonIntegerNumber ==
    [kind |-> "number", big |-> BigOf(FALSE, <<>>), integral |-> FALSE, bool |-> FALSE]
BooleanValue(b) ==
    [kind |-> "boolean", big |-> BigOf(FALSE, <<>>), integral |-> TRUE, bool |-> b]

\* typeof value === 'bigint' ? value : BigInt(value); BigInt throws a
\* RangeError on a number that is not an integer, and maps true/false to 1n/0n
CanConvert(value) == value.kind # "number" \/ value.integral
ToBigInt(value) ==
    IF value.kind = "boolean" THEN BigOf(FALSE, IF value.bool THEN <<1>> ELSE <<>>)
    ELSE value.big

validateInput(value, type) ==
    IF type = "ebool" THEN value.kind = "boolean"
    ELSE LET numValue == ToBigInt(value)
         IN CASE type = "euint8" ->
                   BigGe0(numValue) /\ BigLeMag(numValue, Lit(<<255>>))
              [] type = "euint16" ->
                   BigGe0(numValue) /\ BigLeMag(numValue, Lit(<<6, 5535>>))
              [] type = "euint32" ->
                   BigGe0(numValue) /\ BigLeMag(numValue, Lit(<<42, 9496, 7295>>))
              [] type = "euint64" ->
                   BigGe0(numValue)
                   /\ BigLeMag(numValue, Lit(<<1844, 6744, 737, 955, 1615>>))
              [] OTHER -> TRUE

getByteLengthForType(type) ==
    CASE type \in {"euint8", "ebool"} -> 1
      [] type = "euint16" -> 2
      [] type = "euint32" -> 4
      [] type = "euint64" -> 8
      [] type = "euint128" -> 16
      [] type = "euint256" -> 32
      [] OTHER -> 32

\* the loop of valueToBytes: bytes[i] = Number(tempValue & 0xFFn); tempValue >>= 8n
RECURSIVE BytesLoop(_, _, _, _)
BytesLoop(tempValue, i, byteLength, bytes) ==
    IF i >= byteLength THEN bytes
    ELSE BytesLoop(BigShr8(tempValue), i + 1, byteLength,
                   Append(bytes, BigAndFF(tempValue)))

\* Faulty variant of valueToBytes: the bytes most significant first.
RECURSIVE Reversed(_)
Reversed(seq) == IF seq = <<>> THEN <<>> ELSE Append(Reversed(Tail(seq)), Head(seq))

valueToBytes_BigEndian(value, type) ==
    IF type = "ebool"
    THEN <<IF value.kind = "boolean" THEN (IF value.bool THEN 1 ELSE 0)
           ELSE (IF value.big.mag # <<>> THEN 1 ELSE 0)>>
    ELSE Reversed(BytesLoop(ToBigInt(value), 0, getByteLengthForType(type), <<>>))

valueToBytes(value, type) ==
    IF type = "ebool"
    THEN <<IF value.kind = "boolean" THEN (IF value.bool THEN 1 ELSE 0)
           ELSE (IF value.big.mag # <<>> THEN 1 ELSE 0)>>
    ELSE BytesLoop(ToBigInt(value), 0, getByteLengthForType(type), <<>>)

\* b.toString(16).padStart(2, '0')
HexDigits == <<"0", "1", "2", "3", "4", "5", "6", "7",
               "8", "9", "a", "b", "c", "d", "e", "f">>
ByteToHex(b) == <<HexDigits[(b \div 16) + 1], HexDigits[(b % 16) + 1]>>

RECURSIVE JoinHex(_)
JoinHex(bytes) ==
    IF bytes = <<>> THEN <<>> ELSE ByteToHex(Head(bytes)) \o JoinHex(Tail(bytes))

\* `0x${bytesHex}${type}`: the characters "0", "x", the hex digits, and the
\* type name as the last element
performEncryption(bytes, type) == <<"0", "x">> \o JoinHex(bytes) \o <<type>>

\* the outcome of encrypt(value, type, config): a rejection carrying the
\* error's message, or {ciphertext, type}
Rejected(message) ==
    [status |-> "rejected", message |-> message, ciphertext |-> <<>>, type |-> ""]
Resolved(ciphertext, type) ==
    [status |-> "resolved", message |-> "", ciphertext |-> ciphertext, type |-> type]

encrypt(value, type) ==
    IF type # "ebool" /\ ~CanConvert(value)
    THEN Rejected("RangeError")
    ELSE IF ~validateInput(value, type)
    THEN Rejected("Invalid input for type")
    ELSE Resolved(performEncryption(valueToBytes(value, type), type), type)

(***************************************************************************)
(* PrivateRentalMatching (src/contracts/README.md, lines 191-480).         *)
(* Each operation has an operator giving the reason string of the first    *)
(* failing require ("" when none fails) and an action that applies its     *)
(* writes when that is "".  A transaction that reverts changes nothing:    *)
(* it is a stuttering step, which every specification below allows.        *)
(* block.timestamp and the FHE access-control lists are not modelled.      *)
(***************************************************************************)
ZeroAddress == "0x0"
Addresses == {"a1", "a2", "a3"}
\* the deployer and the _pauserAddresses argument of the constructor
Deployer == "a1"
PauserAddressesArg == <<"a2", "a1">>

\* mappings are total: id 0 and the last id of each range are never assigned.
\* A match takes one unmatched listing and one unmatched request.
ListingIds == 0..(MaxRecords + 1)
RequestIds == 0..(MaxRecords + 1)
MatchIds == 0..((MaxRecords \div 2) + 1)

\* arguments (price, bedrooms, postal code, property type); uint32 arguments
\* are magnitudes, uint8 arguments are numbers
ListingInputs ==
    { <<Lit(<<2000>>), 2, Lit(<<1, 2345>>), 1>>,
      <<Lit(<<42, 9496, 7295>>), 10, <<>>, 3>>,
      <<<<>>, 2, Lit(<<1, 2345>>), 1>>,
      <<Lit(<<2000>>), 0, Lit(<<1, 2345>>), 1>>,
      <<Lit(<<2000>>), 255, Lit(<<1, 2345>>), 1>>,
      <<Lit(<<2000>>), 2, Lit(<<1, 2345>>), 4>> }
RequestInputs ==
    { <<Lit(<<2500>>), 2, Lit(<<1, 2345>>), 1>>,
      <<<<>>, 2, Lit(<<1, 2345>>), 1>>,
      <<Lit(<<2500>>), 0, Lit(<<1, 2345>>), 1>>,
      <<Lit(<<2500>>), 2, Lit(<<1, 2345>>), 4>> }

\* the value of a mapping entry that was never written
NoListing ==
    [encryptedPrice |-> <<>>, encryptedBedrooms |-> 0, encryptedPostalCode |-> <<>>,
     encryptedPropertyType |-> 0, isActive |-> FALSE, landlord |-> ZeroAddress,
     isMatched |-> FALSE]
NoRequest ==
    [encryptedMaxBudget |-> <<>>, encryptedMinBedrooms |-> 0,
     encryptedPreferredPostalCode |-> <<>>, encryptedPreferredPropertyType |-> 0,
     isActive |-> FALSE, tenant |-> ZeroAddress, isMatched |-> FALSE]
NoMatch ==
    [listingId |-> 0, requestId |-> 0, landlord |-> ZeroAddress, tenant |-> ZeroAddress,
     isConfirmed |-> FALSE, landlordConfirmed |-> FALSE, tenantConfirmed |-> FALSE]

\* the state the constructor leaves
InitContract ==
    /\ owner = Deployer
    /\ listingIdCounter = 1
    /\ requestIdCounter = 1
    /\ matchCounter = 1
    /\ isPaused = FALSE
    /\ isPauserAddress =
         [a \in Addresses \cup {ZeroAddress} |->
            \E i \in 1..Len(PauserAddressesArg) : PauserAddressesArg[i] = a]
    /\ listings = [i \in ListingIds |-> NoListing]
    /\ requests = [i \in RequestIds |-> NoRequest]
    /\ matches = [i \in MatchIds |-> NoMatch]
    /\ userListings = [a \in Addresses |-> <<>>]
    /\ userRequests = [a \in Addresses |-> <<>>]

\* modifier whenNotPaused
whenNotPaused == IF isPaused THEN "Contract is paused" ELSE ""

\* Faulty variant of createListing's require chain: no whenNotPaused.
createListingRevert_NoPauseCheck(_price, _bedrooms, _postalCode, _propertyType) ==
    IF ~(MagCmp(_price, <<>>) > 0) THEN "Price must be greater than 0"
    ELSE IF ~(_bedrooms > 0 /\ _bedrooms <= 10) THEN "Invalid bedroom count"
    ELSE IF ~(_propertyType >= 1 /\ _propertyType <= 3) THEN "Invalid property type"
    ELSE ""

createListingRevert(_price, _bedrooms, _postalCode, _propertyType) ==
    IF whenNotPaused # "" THEN whenNotPaused
    ELSE IF ~(MagCmp(_price, <<>>) > 0) THEN "Price must be greater than 0"
    ELSE IF ~(_bedrooms > 0 /\ _bedrooms <= 10) THEN "Invalid bedroom count"
    ELSE IF ~(_propertyType >= 1 /\ _propertyType <= 3) THEN "Invalid property type"
    ELSE ""

createListing(sender, _price, _bedrooms, _postalCode, _propertyType) ==
    /\ createListingRevert(_price, _bedrooms, _postalCode, _propertyType) = ""
    /\ (listingIdCounter - 1) + (requestIdCounter - 1) < MaxRecords
    /\ listings' = [listings EXCEPT ![listingIdCounter] =
          [encryptedPrice |-> _price, encryptedBedrooms |-> _bedrooms,
           encryptedPostalCode |-> _postalCode,
           encryptedPropertyType |-> _propertyType,
           isActive |-> TRUE, landlord |-> sender, isMatched |-> FALSE]]
    /\ userListings' = [userListings EXCEPT ![sender] = Append(@, listingIdCounter)]
    /\ listingIdCounter' = listingIdCounter + 1
    /\ UNCHANGED <<owner, requestIdCounter, matchCounter, isPaused, isPauserAddress,
                   requests, matches, userRequests, registryVars, encryptVars, decryptVars, reactVars>>

createRequestRevert(_maxBudget, _minBedrooms, _preferredPostalCode, _preferredPropertyType) ==
    IF whenNotPaused # "" THEN whenNotPaused
    ELSE IF ~(MagCmp(_maxBudget, <<>>) > 0) THEN "Budget must be greater than 0"
    ELSE IF ~(_minBedrooms > 0 /\ _minBedrooms <= 10) THEN "Invalid bedroom count"
    ELSE IF ~(_preferredPropertyType >= 1 /\ _preferredPropertyType <= 3)
    THEN "Invalid property type"
    ELSE ""

createRequest(sender, _maxBudget, _minBedrooms, _preferredPostalCode, _preferredPropertyType) ==
    /\ createRequestRevert(_maxBudget, _minBedrooms, _preferredPostalCode,
                           _preferredPropertyType) = ""
    /\ (listingIdCounter - 1) + (requestIdCounter - 1) < MaxRecords
    /\ requests' = [requests EXCEPT ![requestIdCounter] =
          [encryptedMaxBudget |-> _maxBudget, encryptedMinBedrooms |-> _minBedrooms,
           encryptedPreferredPostalCode |-> _preferredPostalCode,
           encryptedPreferredPropertyType |-> _preferredPropertyType,
           isActive |-> TRUE, tenant |-> sender, isMatched |-> FALSE]]
    /\ userRequests' = [userRequests EXCEPT ![sender] = Append(@, requestIdCounter)]
    /\ requestIdCounter' = requestIdCounter + 1
    /\ UNCHANGED <<owner, listingIdCounter, matchCounter, isPaused, isPauserAddress,
                   listings, matches, userListings, registryVars, encryptVars, decryptVars, reactVars>>

\* Faulty variant of createMatch's require chain: a listing whose price is
\* above the request's budget is refused.
createMatchRevert_RequiresPriceMatch(sender, _listingId, _requestId) ==
    IF whenNotPaused # "" THEN whenNotPaused
    ELSE IF ~listings[_listingId].isActive THEN "Listing not active"
    ELSE IF ~requests[_requestId].isActive THEN "Request not active"
    ELSE IF listings[_listingId].isMatched THEN "Listing already matched"
    ELSE IF requests[_requestId].isMatched THEN "Request already matched"
    ELSE IF ~(sender = listings[_listingId].landlord \/ sender = requests[_requestId].tenant)
    THEN "Not authorized to create this match"
    ELSE IF ~(MagCmp(listings[_listingId].encryptedPrice,
                     requests[_requestId].encryptedMaxBudget) <= 0)
    THEN "Price above budget"
    ELSE ""


\* Faulty variants of createMatch's require chain, each lacking one check;
\* the properties below must tell them from the contract's.
createMatchRevert_NoListingMatchedCheck(sender, _listingId, _requestId) ==
    IF whenNotPaused # "" THEN whenNotPaused
    ELSE IF ~listings[_listingId].isActive THEN "Listing not active"
    ELSE IF ~requests[_requestId].isActive THEN "Request not active"
    ELSE IF requests[_requestId].isMatched THEN "Request already matched"
    ELSE IF ~(sender = listings[_listingId].landlord \/ sender = requests[_requestId].tenant)
    THEN "Not authorized to create this match"
    ELSE ""

createMatchRevert_NoAuthorization(sender, _listingId, _requestId) ==
    IF whenNotPaused # "" THEN whenNotPaused
    ELSE IF ~listings[_listingId].isActive THEN "Listing not active"
    ELSE IF ~requests[_requestId].isActive THEN "Request not active"
    ELSE IF listings[_listingId].isMatched THEN "Listing already matched"
    ELSE IF requests[_requestId].isMatched THEN "Request already matched"
    ELSE ""

createMatchRevert_NoRequestActiveCheck(sender, _listingId, _requestId) ==
    IF whenNotPaused # "" THEN whenNotPaused
    ELSE IF ~listings[_listingId].isActive THEN "Listing not active"
    ELSE IF listings[_listingId].isMatched THEN "Listing already matched"
    ELSE IF requests[_requestId].isMatched THEN "Request already matched"
    ELSE IF ~(sender = listings[_listingId].landlord \/ sender = requests[_requestId].tenant)
    THEN "Not authorized to create this match"
    ELSE ""

createMatchRevert(sender, _listingId, _requestId) ==
    IF whenNotPaused # "" THEN whenNotPaused
    ELSE IF ~listings[_listingId].isActive THEN "Listing not active"
    ELSE IF ~requests[_requestId].isActive THEN "Request not active"
    ELSE IF listings[_listingId].isMatched THEN "Listing already matched"
    ELSE IF requests[_requestId].isMatched THEN "Request already matched"
    ELSE IF ~(sender = listings[_listingId].landlord \/ sender = requests[_requestId].tenant)
    THEN "Not authorized to create this match"
    ELSE ""

\* the four FHE comparisons createMatch computes; their results are stored
\* nowhere and decide nothing
compatibility(_listingId, _requestId) ==
    LET listing == listings[_listingId]
        request == requests[_requestId]
    IN [priceMatch |-> MagCmp(listing.encryptedPrice, request.encryptedMaxBudget) <= 0,
        bedroomMatch |-> listing.encryptedBedrooms >= request.encryptedMinBedrooms,
        typeMatch |-> listing.encryptedPropertyType = request.encryptedPreferredPropertyType,
        postalMatch |-> listing.encryptedPostalCode = request.encryptedPreferredPostalCode]

\* Faulty variant of createMatch: the listing is marked as matched before the
\* caller is checked, and the mark outlives the refusal.
createMatch_MarksBeforeAuthorization(sender, _listingId, _requestId) ==
    IF createMatchRevert(sender, _listingId, _requestId) = "Not authorized to create this match"
    THEN /\ listings' = [listings EXCEPT ![_listingId].isMatched = TRUE]
         /\ UNCHANGED <<owner, listingIdCounter, requestIdCounter, matchCounter, isPaused,
                        isPauserAddress, requests, matches, userListings, userRequests,
                        registryVars, encryptVars, decryptVars, reactVars>>
    ELSE /\ createMatchRevert(sender, _listingId, _requestId) = ""
         /\ matches' = [matches EXCEPT ![matchCounter] =
               [listingId |-> _listingId, requestId |-> _requestId,
                landlord |-> listings[_listingId].landlord,
                tenant |-> requests[_requestId].tenant,
                isConfirmed |-> FALSE, landlordConfirmed |-> FALSE,
                tenantConfirmed |-> FALSE]]
         /\ listings' = [listings EXCEPT ![_listingId].isMatched = TRUE]
         /\ requests' = [requests EXCEPT ![_requestId].isMatched = TRUE]
         /\ matchCounter' = matchCounter + 1
         /\ UNCHANGED <<owner, listingIdCounter, requestIdCounter, isPaused, isPauserAddress,
                        userListings, userRequests, registryVars, encryptVars, decryptVars,
                        reactVars>>

\* Faulty variant of createMatch: the request is not marked as matched.
createMatch_LeavesRequestUnmarked(sender, _listingId, _requestId) ==
    /\ createMatchRevert(sender, _listingId, _requestId) = ""
    /\ matches' = [matches EXCEPT ![matchCounter] =
          [listingId |-> _listingId, requestId |-> _requestId,
           landlord |-> listings[_listingId].landlord,
           tenant |-> requests[_requestId].tenant,
           isConfirmed |-> FALSE, landlordConfirmed |-> FALSE,
           tenantConfirmed |-> FALSE]]
    /\ listings' = [listings EXCEPT ![_listingId].isMatched = TRUE]
    /\ matchCounter' = matchCounter + 1
    /\ UNCHANGED <<owner, listingIdCounter, requestIdCounter, isPaused, isPauserAddress,
                   requests, userListings, userRequests, registryVars, encryptVars,
                   decryptVars, reactVars>>


createMatch(sender, _listingId, _requestId) ==
    /\ createMatchRevert(sender, _listingId, _requestId) = ""
    /\ matches' = [matches EXCEPT ![matchCounter] =
          [listingId |-> _listingId, requestId |-> _requestId,
           landlord |-> listings[_listingId].landlord,
           tenant |-> requests[_requestId].tenant,
           isConfirmed |-> FALSE, landlordConfirmed |-> FALSE,
           tenantConfirmed |-> FALSE]]
    /\ listings' = [listings EXCEPT ![_listingId].isMatched = TRUE]
    /\ requests' = [requests EXCEPT ![_requestId].isMatched = TRUE]
    /\ matchCounter' = matchCounter + 1
    /\ UNCHANGED <<owner, listingIdCounter, requestIdCounter, isPaused, isPauserAddress,
                   userListings, userRequests, registryVars, encryptVars, decryptVars, reactVars>>

\* Faulty variant of confirmMatch's require chain: the landlord may confirm
\* again while the tenant has not.
confirmMatchRevert_LandlordMayRepeat(sender, _matchId) ==
    IF whenNotPaused # "" THEN whenNotPaused
    ELSE IF ~(matches[_matchId].landlord # ZeroAddress) THEN "Match does not exist"
    ELSE IF matches[_matchId].isConfirmed THEN "Match already confirmed"
    ELSE IF sender = matches[_matchId].landlord
    THEN ""
    ELSE IF sender = matches[_matchId].tenant
    THEN (IF matches[_matchId].tenantConfirmed THEN "Already confirmed by tenant" ELSE "")
    ELSE "Not authorized to confirm this match"

confirmMatchRevert(sender, _matchId) ==
    IF whenNotPaused # "" THEN whenNotPaused
    ELSE IF ~(matches[_matchId].landlord # ZeroAddress) THEN "Match does not exist"
    ELSE IF matches[_matchId].isConfirmed THEN "Match already confirmed"
    ELSE IF sender = matches[_matchId].landlord
    THEN (IF matches[_matchId].landlordConfirmed THEN "Already confirmed by landlord" ELSE "")
    ELSE IF sender = matches[_matchId].tenant
    THEN (IF matches[_matchId].tenantConfirmed THEN "Already confirmed by tenant" ELSE "")
    ELSE "Not authorized to confirm this match"

\* Faulty variants of confirmMatch's writes: isConfirmed set as soon as one
\* party has confirmed; isConfirmed set only when the tenant confirms last;
\* the other party's confirmation cleared.
confirmMatchData_EitherConfirms(sender, matchData) ==
    LET marked == IF sender = matchData.landlord
                  THEN [matchData EXCEPT !.landlordConfirmed = TRUE]
                  ELSE [matchData EXCEPT !.tenantConfirmed = TRUE]
    IN IF marked.landlordConfirmed \/ marked.tenantConfirmed
       THEN [marked EXCEPT !.isConfirmed = TRUE]
       ELSE marked

confirmMatchData_TenantLastOnly(sender, matchData) ==
    LET marked == IF sender = matchData.landlord
                  THEN [matchData EXCEPT !.landlordConfirmed = TRUE]
                  ELSE [matchData EXCEPT !.tenantConfirmed = TRUE]
    IN IF marked.landlordConfirmed /\ marked.tenantConfirmed /\ sender = matchData.tenant
       THEN [marked EXCEPT !.isConfirmed = TRUE]
       ELSE marked

confirmMatchData_ClearsOther(sender, matchData) ==
    IF sender = matchData.landlord
    THEN [matchData EXCEPT !.landlordConfirmed = TRUE, !.tenantConfirmed = FALSE]
    ELSE [matchData EXCEPT !.tenantConfirmed = TRUE, !.landlordConfirmed = FALSE]

\* Faulty variant of confirmMatch's writes: the tenant branch is tested first.
confirmMatchData_TenantBranchFirst(sender, matchData) ==
    LET marked == IF sender = matchData.tenant
                  THEN [matchData EXCEPT !.tenantConfirmed = TRUE]
                  ELSE [matchData EXCEPT !.landlordConfirmed = TRUE]
    IN IF marked.landlordConfirmed /\ marked.tenantConfirmed
       THEN [marked EXCEPT !.isConfirmed = TRUE]
       ELSE marked


\* the writes of a confirmMatch that does not revert
confirmMatchData(sender, matchData) ==
    LET marked == IF sender = matchData.landlord
                  THEN [matchData EXCEPT !.landlordConfirmed = TRUE]
                  ELSE [matchData EXCEPT !.tenantConfirmed = TRUE]
    IN IF marked.landlordConfirmed /\ marked.tenantConfirmed
       THEN [marked EXCEPT !.isConfirmed = TRUE]
       ELSE marked

\* Faulty variant of confirmMatch: a match confirmed by both parties closes
\* its listing and its request.
confirmMatch_ClosesRecords(sender, _matchId) ==
    /\ confirmMatchRevert(sender, _matchId) = ""
    /\ matches' = [matches EXCEPT ![_matchId] = confirmMatchData(sender, @)]
    /\ LET closes == confirmMatchData(sender, matches[_matchId]).isConfirmed
       IN /\ listings' = [listings EXCEPT ![matches[_matchId].listingId].isActive =
                                              IF closes THEN FALSE ELSE @]
          /\ requests' = [requests EXCEPT ![matches[_matchId].requestId].isActive =
                                              IF closes THEN FALSE ELSE @]
    /\ UNCHANGED <<owner, listingIdCounter, requestIdCounter, matchCounter, isPaused,
                   isPauserAddress, userListings, userRequests,
                   registryVars, encryptVars, decryptVars, reactVars>>


confirmMatch(sender, _matchId) ==
    /\ confirmMatchRevert(sender, _matchId) = ""
    /\ matches' = [matches EXCEPT ![_matchId] = confirmMatchData(sender, @)]
    /\ UNCHANGED <<owner, listingIdCounter, requestIdCounter, matchCounter, isPaused,
                   isPauserAddress, listings, requests, userListings, userRequests,
                   registryVars, encryptVars, decryptVars, reactVars>>

\* view functions: none carries whenNotPaused
\* Faulty variant of getUserListings: the ids latest first.
getUserListings_LatestFirst(_user) ==
    [k \in 1..Len(userListings[_user]) |->
        userListings[_user][Len(userListings[_user]) + 1 - k]]

getUserListings(_user) == userListings[_user]
getUserRequests(_user) == userRequests[_user]
getActiveListingsCount ==
    Cardinality({i \in 1..(listingIdCounter - 1) :
                    listings[i].isActive /\ ~listings[i].isMatched})
getActiveRequestsCount ==
    Cardinality({i \in 1..(requestIdCounter - 1) :
                    requests[i].isActive /\ ~requests[i].isMatched})

(***************************************************************************)
(* Operations the repository's test suite calls on the contract            *)
(* (src/test/PrivateRentalMatching.test.ts) that the contract source under *)
(* src/ does not define.  They are modelled from the tests' calls and      *)
(* expected revert strings.                                                *)
(***************************************************************************)
\* Faulty variant of pause's checks: any caller may pause.
pauseRevert_AnyCaller(sender) ==
    IF isPaused THEN "Pausable: paused" ELSE ""

pauseRevert(sender) ==
    IF ~isPauserAddress[sender] THEN "Not authorized to pause"
    ELSE IF isPaused THEN "Pausable: paused"
    ELSE ""

pause(sender) ==
    /\ pauseRevert(sender) = ""
    /\ isPaused' = TRUE
    /\ UNCHANGED <<owner, listingIdCounter, requestIdCounter, matchCounter,
                   isPauserAddress, listings, requests, matches, userListings,
                   userRequests, registryVars, encryptVars, decryptVars, reactVars>>

unpauseRevert(sender) ==
    IF ~isPauserAddress[sender] THEN "Not authorized to pause"
    ELSE IF ~isPaused THEN "Pausable: not paused"
    ELSE ""

unpause(sender) ==
    /\ unpauseRevert(sender) = ""
    /\ isPaused' = FALSE
    /\ UNCHANGED <<owner, listingIdCounter, requestIdCounter, matchCounter,
                   isPauserAddress, listings, requests, matches, userListings,
                   userRequests, registryVars, encryptVars, decryptVars, reactVars>>

\* Faulty variant of addPauser's checks: any caller may add a pauser.
addPauserRevert_AnyCaller(sender, pauser) ==
    IF pauser = ZeroAddress THEN "Invalid pauser address" ELSE ""

addPauserRevert(sender, pauser) ==
    IF sender # owner THEN "Ownable: caller is not the owner"
    ELSE IF pauser = ZeroAddress THEN "Invalid pauser address"
    ELSE ""

addPauser(sender, pauser) ==
    /\ addPauserRevert(sender, pauser) = ""
    /\ isPauserAddress' = [isPauserAddress EXCEPT ![pauser] = TRUE]
    /\ UNCHANGED <<owner, listingIdCounter, requestIdCounter, matchCounter, isPaused,
                   listings, requests, matches, userListings, userRequests,
                   registryVars, encryptVars, decryptVars, reactVars>>

removePauserRevert(sender, pauser) ==
    IF sender # owner THEN "Ownable: caller is not the owner" ELSE ""

removePauser(sender, pauser) ==
    /\ removePauserRevert(sender, pauser) = ""
    /\ isPauserAddress' = [isPauserAddress EXCEPT ![pauser] = FALSE]
    /\ UNCHANGED <<owner, listingIdCounter, requestIdCounter, matchCounter, isPaused,
                   listings, requests, matches, userListings, userRequests,
                   registryVars, encryptVars, decryptVars, reactVars>>

\* Faulty variant of deactivateListing's checks: any caller may deactivate.
deactivateListingRevert_AnyCaller(sender, _listingId) ==
    IF listings[_listingId].landlord = ZeroAddress THEN "Listing does not exist" ELSE ""

deactivateListingRevert(sender, _listingId) ==
    IF listings[_listingId].landlord = ZeroAddress THEN "Listing does not exist"
    ELSE IF sender # listings[_listingId].landlord THEN "Not the listing owner"
    ELSE ""

deactivateListing(sender, _listingId) ==
    /\ deactivateListingRevert(sender, _listingId) = ""
    /\ listings' = [listings EXCEPT ![_listingId].isActive = FALSE]
    /\ UNCHANGED <<owner, listingIdCounter, requestIdCounter, matchCounter, isPaused,
                   isPauserAddress, requests, matches, userListings, userRequests,
                   registryVars, encryptVars, decryptVars, reactVars>>

cancelRequestRevert(sender, _requestId) ==
    IF requests[_requestId].tenant = ZeroAddress THEN "Request does not exist"
    ELSE IF sender # requests[_requestId].tenant THEN "Not the request owner"
    ELSE ""

cancelRequest(sender, _requestId) ==
    /\ cancelRequestRevert(sender, _requestId) = ""
    /\ requests' = [requests EXCEPT ![_requestId].isActive = FALSE]
    /\ UNCHANGED <<owner, listingIdCounter, requestIdCounter, matchCounter, isPaused,
                   isPauserAddress, listings, matches, userListings, userRequests,
                   registryVars, encryptVars, decryptVars, reactVars>>

(***************************************************************************)
(* SDK core: encrypt as called through a client.  The call runs            *)
(* validateInput, valueToBytes and the body of performEncryption, then     *)
(* awaits; the promise settles in a later step.                            *)
(***************************************************************************)
\* the values the model passes to encrypt
EncryptValues ==
    { BigIntValue(FALSE, <<>>),
      BigIntValue(FALSE, Lit(<<1>>)),
      BigIntValue(FALSE, Lit(<<255>>)),
      BigIntValue(FALSE, Lit(<<256>>)),
      BigIntValue(FALSE, Lit(<<258>>)),
      BigIntValue(FALSE, Lit(<<6, 5535>>)),
      BigIntValue(FALSE, Lit(<<6, 5536>>)),
      BigIntValue(FALSE, Lit(<<1690, 9060>>)),
      BigIntValue(FALSE, Lit(<<42, 9496, 7295>>)),
      BigIntValue(FALSE, Lit(<<42, 9496, 7296>>)),
      BigIntValue(FALSE, Lit(<<1844, 6744, 737, 955, 1615>>)),
      BigIntValue(FALSE, Lit(<<1844, 6744, 737, 955, 1616>>)),
      BigIntValue(FALSE, Lit(<<1, 3396, 7375, 5198, 1583, 4904, 4581, 3072, 2849, 1536>>)),
      BigIntValue(FALSE, Lit(<<340, 2823, 6692, 938, 4634, 6337, 4607, 4317, 6821, 1455>>)),
      BigIntValue(FALSE, Lit(<<340, 2823, 6692, 938, 4634, 6337, 4607, 4317, 6821, 1456>>)),
      BigIntValue(FALSE, Lit(<<11, 5792, 892, 3731, 6195, 4235, 7098, 5008, 6879, 785,
                               3269, 9846, 6564, 564, 394, 5758, 4007, 9131, 2963, 9935>>)),
      BigIntValue(FALSE, Lit(<<11, 5792, 892, 3731, 6195, 4235, 7098, 5008, 6879, 785,
                               3269, 9846, 6564, 564, 394, 5758, 4007, 9131, 2963, 9936>>)),
      BigIntValue(TRUE, Lit(<<1>>)),
      BigIntValue(TRUE, Lit(<<256>>)),
      NumberValue(FALSE, Lit(<<42>>)),
      NumberValue(FALSE, Lit(<<1234>>)),
      NumberValue(TRUE, Lit(<<1>>)),
      NonIntegerNumber,
      BooleanValue(TRUE),
      BooleanValue(FALSE) }

\* no call: nothing awaited, nothing settled yet
NoEncrypt == [status |-> "none"]

InitEncrypt ==
    /\ encrypting = NoEncrypt
    /\ encrypted = NoEncrypt
    /\ encryptCalls = <<>>

clientEncrypt(value, type) ==
    /\ encrypting = NoEncrypt
    /\ encrypting' = [status |-> "pending", value |-> value, type |-> type,
                      outcome |-> encrypt(value, type)]
    /\ encrypted' = NoEncrypt
    /\ UNCHANGED <<contractVars, registryVars, decryptVars, reactVars, encryptCalls>>

clientEncryptSettle ==
    /\ encrypting # NoEncrypt
    /\ encrypted' = [encrypting EXCEPT !.status = "settled"]
    /\ encrypting' = NoEncrypt
    /\ UNCHANGED <<contractVars, registryVars, decryptVars, reactVars, encryptCalls>>

(***************************************************************************)
(* SDK core: decrypt, publicDecrypt and userDecrypt.  Each POSTs to the    *)
(* gateway and awaits the response; the call settles in a later step.      *)
(* Strings that are parsed are sequences of characters.                    *)
(***************************************************************************)
DecryptOps == {"decrypt", "publicDecrypt", "userDecrypt"}

\* how the POST ends: a response with ok and a JSON body {value}, a response
\* that is not ok with its statusText, or fetch throwing
GatewayResponses ==
    { [kind |-> "ok", value |-> <<"4", "2">>, statusText |-> "OK"],
      [kind |-> "ok", value |-> <<"1">>, statusText |-> "OK"],
      [kind |-> "ok", value |-> <<"t", "r", "u", "e">>, statusText |-> "OK"],
      [kind |-> "not ok", value |-> <<>>, statusText |-> "Internal Server Error"],
      [kind |-> "not ok", value |-> <<>>, statusText |-> "Forbidden"],
      [kind |-> "network error", value |-> <<>>, statusText |-> ""] }

Digits == <<"0", "1", "2", "3", "4", "5", "6", "7", "8", "9">>
IsDigit(c) == \E n \in 1..10 : Digits[n] = c
DigitValue(c) == (CHOOSE n \in 1..10 : Digits[n] = c) - 1

\* BigInt(value) of a string of decimal digits; any other string of the
\* model makes BigInt throw a SyntaxError
RECURSIVE ParseDecimalFrom(_, _, _)
ParseDecimalFrom(value, i, acc) ==
    IF Len(acc) >= 0 /\ i > Len(value) THEN acc
    ELSE ParseDecimalFrom(value, i + 1, MagMulAdd(acc, 10, DigitValue(value[i])))

CanParseBigInt(value) == \A i \in 1..Len(value) : IsDigit(value[i])

\* a decrypted value: bigint | boolean | string
NoValue == [kind |-> "none", big |-> <<>>, bool |-> FALSE, text |-> <<>>]
BigValue(mag) == [kind |-> "bigint", big |-> mag, bool |-> FALSE, text |-> <<>>]
BoolValue(b) == [kind |-> "boolean", big |-> <<>>, bool |-> b, text |-> <<>>]
TextValue(text) == [kind |-> "string", big |-> <<>>, bool |-> FALSE, text |-> text]

\* parseDecryptedValue where it returns
parseDecryptedValue(value, type) ==
    IF type = "ebool" THEN BoolValue(value = <<"1">> \/ value = <<"t", "r", "u", "e">>)
    ELSE IF type = "eaddress" THEN TextValue(value)
    ELSE BigValue(ParseDecimalFrom(value, 1, <<>>))

\* parseDecryptedValue throws: BigInt(value) on a string that is no number
parseDecryptedValueThrows(value, type) ==
    type \notin {"ebool", "eaddress"} /\ ~CanParseBigInt(value)

DecryptRejected(message) ==
    [status |-> "rejected", message |-> message, value |-> NoValue, type |-> ""]
DecryptResolved(value, type) ==
    [status |-> "resolved", message |-> <<>>, value |-> value, type |-> type]

\* the text each function puts before the error it rethrows
FailurePrefix(op) ==
    CASE op = "decrypt" -> "Decryption failed: "
      [] op = "publicDecrypt" -> "Public decryption failed: "
      [] op = "userDecrypt" -> "User decryption failed: "

\* what the try block throws or returns once the response is there
gatewayOutcome(op, type, response) ==
    IF response.kind = "network error"
    THEN DecryptRejected(<<FailurePrefix(op), "TypeError: ", "fetch failed">>)
    ELSE IF response.kind = "not ok"
    THEN DecryptRejected(<<FailurePrefix(op), "Error: ", "Gateway error: ",
                           response.statusText>>)
    ELSE IF parseDecryptedValueThrows(response.value, type)
    THEN DecryptRejected(<<FailurePrefix(op), "SyntaxError: ", "Cannot convert to BigInt">>)
    ELSE DecryptResolved(parseDecryptedValue(response.value, type), type)

\* publicDecrypt and userDecrypt after the response
publicDecryptOutcome(type, response) == gatewayOutcome("publicDecrypt", type, response)
userDecryptOutcome(type, response) == gatewayOutcome("userDecrypt", type, response)

\* decrypt after the response.  Line 133 of core/index.ts reads
\* `value: parseDe cryptedValue(data.value, request.type)`: no build produces
\* a decrypt that returns, and where the function runs at all the object
\* literal first evaluates the unbound identifier parseDe, which throws a
\* ReferenceError inside the try block.
decryptOutcome(type, response) ==
    IF response.kind = "ok"
    THEN DecryptRejected(<<FailurePrefix("decrypt"), "ReferenceError: ",
                           "parseDe is not defined">>)
    ELSE gatewayOutcome("decrypt", type, response)

settleOutcome(op, type, response) ==
    CASE op = "decrypt" -> decryptOutcome(type, response)
      [] op = "publicDecrypt" -> publicDecryptOutcome(type, response)
      [] op = "userDecrypt" -> userDecryptOutcome(type, response)

NoDecrypt == [status |-> "none"]

InitDecrypt ==
    /\ decrypting = NoDecrypt
    /\ decrypted = NoDecrypt

\* client.decrypt / client.publicDecrypt / client.userDecrypt up to the
\* await of fetch: one POST is issued
clientDecrypt(op, type) ==
    /\ decrypting = NoDecrypt
    /\ decrypting' = [status |-> "pending", op |-> op, type |-> type, requests |-> 1]
    /\ decrypted' = NoDecrypt
    /\ UNCHANGED <<contractVars, registryVars, encryptVars, reactVars>>

\* the rest of the call once the gateway has answered
clientDecryptSettle(response) ==
    /\ decrypting # NoDecrypt
    /\ decrypted' = [status |-> "settled", op |-> decrypting.op, type |-> decrypting.type,
                     requests |-> decrypting.requests, response |-> response,
                     outcome |-> settleOutcome(decrypting.op, decrypting.type, response)]
    /\ decrypting' = NoDecrypt
    /\ UNCHANGED <<contractVars, registryVars, encryptVars, reactVars>>

(***************************************************************************)
(* SDK core: the client registry (initFhevm, getFhevmClient).              *)
(* clients[c] is the c-th client object created; calls[i] is the i-th      *)
(* initFhevm call: its configuration, the client object it holds, where it *)
(* stands (probing, resolved, rejected), the client it returned, the       *)
(* number of health probes it issued, the message of the error it threw,   *)
(* and - for stating properties only - readyBefore, the clients returned   *)
(* by the calls that had resolved when it was made, and rejectedBefore,    *)
(* the calls that had been rejected when it was made.                      *)
(***************************************************************************)
FhevmConfigs ==
    { [network |-> "sepolia", gatewayUrl |-> "https://gateway.a", debug |-> FALSE],
      [network |-> "localhost", gatewayUrl |-> "http://gateway.b", debug |-> TRUE] }

\* how the GET {gatewayUrl}/health of testGatewayConnection ends: response.ok,
\* a response that is not ok, or fetch throwing
ProbeOutcomes == {"ok", "not ok", "network error"}

InitRegistry ==
    /\ globalInstance = Null
    /\ clients = <<>>
    /\ calls = <<>>

getFhevmClient == globalInstance

ResolvedClients == {calls[i].returned : i \in {j \in 1..Len(calls) : calls[j].pc = "resolved"}}
RejectedCalls == {j \in 1..Len(calls) : calls[j].pc = "rejected"}

\* `Failed to initialize FHEVM SDK: ${error}` with the error
\* testGatewayConnection throws for a response that is not ok and for a
\* fetch that throws alike: Error(`Cannot connect to Gateway at ${gatewayUrl}`)
InitError(gatewayUrl) ==
    <<"Failed to initialize FHEVM SDK: ", "Error: ", "Cannot connect to Gateway at ", gatewayUrl>>
NoError == <<>>

\* Faulty variant of the resumption of initFhevm: a client whose probe
\* failed is left in the registry.
initFhevmResume_KeepsFailedClient(i, outcome) ==
    /\ calls[i].pc = "probing"
    /\ IF outcome = "ok"
       THEN /\ clients' = [clients EXCEPT ![calls[i].client].isInitialized = TRUE]
            /\ globalInstance' = calls[i].client
            /\ calls' = [calls EXCEPT ![i].pc = "resolved", ![i].returned = calls[i].client]
       ELSE /\ calls' = [calls EXCEPT ![i].pc = "rejected",
                                      ![i].error = InitError(calls[i].config.gatewayUrl)]
            /\ globalInstance' = calls[i].client
            /\ UNCHANGED clients
    /\ UNCHANGED <<contractVars, encryptVars, decryptVars, reactVars>>

\* Faulty variant of initFhevm up to its first await: the new client is
\* registered before its probe.
initFhevmCall_RegistersBeforeProbe(config) ==
    /\ Len(calls) < MaxCalls
    /\ IF globalInstance # Null /\ clients[globalInstance].isInitialized
       THEN /\ calls' = Append(calls,
                   [config |-> config, client |-> globalInstance, pc |-> "resolved",
                    returned |-> globalInstance, probes |-> 0, error |-> NoError,
                    readyBefore |-> ResolvedClients, rejectedBefore |-> RejectedCalls])
            /\ UNCHANGED <<globalInstance, clients>>
       ELSE /\ clients' = Append(clients, [config |-> config, isInitialized |-> FALSE])
            /\ calls' = Append(calls,
                   [config |-> config, client |-> Len(clients) + 1, pc |-> "probing",
                    returned |-> Null, probes |-> 1, error |-> NoError,
                    readyBefore |-> ResolvedClients, rejectedBefore |-> RejectedCalls])
            /\ globalInstance' = Len(clients) + 1

\* initFhevm up to its first await: the early return, or a new client and
\* the health probe
initFhevmCall(config) ==
    /\ Len(calls) < MaxCalls
    /\ IF globalInstance # Null /\ clients[globalInstance].isInitialized
       THEN /\ calls' = Append(calls,
                   [config |-> config, client |-> globalInstance, pc |-> "resolved",
                    returned |-> globalInstance, probes |-> 0, error |-> NoError,
                    readyBefore |-> ResolvedClients, rejectedBefore |-> RejectedCalls])
            /\ UNCHANGED <<globalInstance, clients>>
       ELSE /\ clients' = Append(clients, [config |-> config, isInitialized |-> FALSE])
            /\ calls' = Append(calls,
                   [config |-> config, client |-> Len(clients) + 1, pc |-> "probing",
                    returned |-> Null, probes |-> 1, error |-> NoError,
                    readyBefore |-> ResolvedClients, rejectedBefore |-> RejectedCalls])
            /\ UNCHANGED globalInstance

\* initFhevm called by the application itself
initFhevm(config) ==
    /\ initFhevmCall(config)
    /\ UNCHANGED <<contractVars, encryptVars, decryptVars, reactVars>>

\* Faulty variant of the resumption of initFhevm: a failed probe is issued
\* once more.
initFhevmResume_Retries(i, outcome) ==
    /\ calls[i].pc = "probing"
    /\ IF outcome = "ok"
       THEN /\ clients' = [clients EXCEPT ![calls[i].client].isInitialized = TRUE]
            /\ globalInstance' = calls[i].client
            /\ calls' = [calls EXCEPT ![i].pc = "resolved", ![i].returned = calls[i].client]
       ELSE /\ calls' = IF calls[i].probes < 2
                        THEN [calls EXCEPT ![i].probes = @ + 1]
                        ELSE [calls EXCEPT ![i].pc = "rejected",
                                           ![i].error = InitError(calls[i].config.gatewayUrl)]
            /\ UNCHANGED <<globalInstance, clients>>
    /\ UNCHANGED <<contractVars, encryptVars, decryptVars, reactVars>>

\* initFhevm after await testGatewayConnection(config.gatewayUrl)
initFhevmResume(i, outcome) ==
    /\ calls[i].pc = "probing"
    /\ IF outcome = "ok"
       THEN /\ clients' = [clients EXCEPT ![calls[i].client].isInitialized = TRUE]
            /\ globalInstance' = calls[i].client
            /\ calls' = [calls EXCEPT ![i].pc = "resolved", ![i].returned = calls[i].client]
       ELSE /\ calls' = [calls EXCEPT ![i].pc = "rejected",
                                      ![i].error = InitError(calls[i].config.gatewayUrl)]
            /\ UNCHANGED <<globalInstance, clients>>
    /\ UNCHANGED <<contractVars, encryptVars, decryptVars, reactVars>>

(***************************************************************************)
(* SDK core: the encrypt method of the client objects.  A client created   *)
(* by initFhevm(config) carries encrypt: (value, type) => encrypt(value,   *)
(* type, config).  encryptCalls[k] is the k-th such call: the client it    *)
(* was made on and that client's config, its arguments, where it stands,   *)
(* its outcome, and whether it wrote the debug line to the console.        *)
(***************************************************************************)
\* Faulty variant of a client's encrypt: the ciphertext carries the network
\* of the client's config.
client_encrypt_TaggedByNetwork(config, value, type) ==
    IF encrypt(value, type).status = "resolved"
    THEN [encrypt(value, type) EXCEPT !.ciphertext = @ \o <<config.network>>]
    ELSE encrypt(value, type)

\* encrypt(value, type, config): config is handed to performEncryption,
\* which does not read it, and read for config.debug before the return
client_encrypt(config, value, type) == encrypt(value, type)

\* whether encrypt(value, type, config) reaches its console.log
client_encrypt_logs(config, value, type) ==
    config.debug /\ encrypt(value, type).status = "resolved"

\* client.encrypt(value, type) on a client that initFhevm returned, up to
\* the await of performEncryption
clientEncryptCall(c, value, type) ==
    /\ clients[c].isInitialized
    /\ Len(encryptCalls) < MaxEncryptCalls
    /\ encryptCalls' = Append(encryptCalls,
          [client |-> c, config |-> clients[c].config, value |-> value, type |-> type,
           pc |-> "pending", outcome |-> NoEncrypt, logged |-> FALSE])
    /\ UNCHANGED <<contractVars, registryVars, encrypting, encrypted, decryptVars, reactVars>>

\* the rest of the call: the promise settles
clientEncryptCallSettle(k) ==
    /\ encryptCalls[k].pc = "pending"
    /\ encryptCalls' = [encryptCalls EXCEPT
          ![k].pc = "settled",
          ![k].outcome = client_encrypt(encryptCalls[k].config, encryptCalls[k].value,
                                        encryptCalls[k].type),
          ![k].logged = client_encrypt_logs(encryptCalls[k].config, encryptCalls[k].value,
                                            encryptCalls[k].type)]
    /\ UNCHANGED <<contractVars, registryVars, encrypting, encrypted, decryptVars, reactVars>>

(***************************************************************************)
(* React adapter: FhevmProvider.  provider is the state of the mounted     *)
(* instance (its config prop and its four useState cells, which are what   *)
(* it publishes); attempts[a] is a run of initialize() that went on to     *)
(* await initFhevm: the initFhevm call it awaits and whether it still      *)
(* awaits, is done, or belongs to an instance that was unmounted (whose    *)
(* state updates React drops).                                             *)
(***************************************************************************)
NoConfig == [network |-> "", gatewayUrl |-> "", debug |-> FALSE]

\* no FhevmProvider is mounted
Unmounted ==
    [mounted |-> FALSE, config |-> NoConfig, client |-> Null,
     isInitialized |-> FALSE, isInitializing |-> FALSE, error |-> NoError]

\* the useState initial values of a new instance
Mounted(config) ==
    [mounted |-> TRUE, config |-> config, client |-> Null,
     isInitialized |-> FALSE, isInitializing |-> TRUE, error |-> NoError]

InitProvider ==
    /\ provider = Unmounted
    /\ attempts = <<>>

\* initialize() up to its await, or to its end when a ready client exists,
\* started from the instance state `state`
\* Faulty variant of initialize(): initFhevm is called whether or not a
\* ready client exists.
initialize_AlwaysCallsInitFhevm(config, state) ==
    /\ initFhevmCall(config)
    /\ IF getFhevmClient # Null /\ clients[getFhevmClient].isInitialized
       THEN /\ provider' = [state EXCEPT !.client = getFhevmClient, !.isInitialized = TRUE,
                                         !.error = NoError, !.isInitializing = FALSE]
            /\ UNCHANGED attempts
       ELSE /\ provider' = [state EXCEPT !.isInitializing = TRUE]
            /\ attempts' = Append(attempts, [call |-> Len(calls) + 1, pc |-> "awaiting"])

initialize(config, state) ==
    IF getFhevmClient # Null /\ clients[getFhevmClient].isInitialized
    THEN /\ provider' = [state EXCEPT !.client = getFhevmClient, !.isInitialized = TRUE,
                                      !.error = NoError, !.isInitializing = FALSE]
         /\ UNCHANGED <<registryVars, attempts>>
    ELSE /\ initFhevmCall(config)
         /\ provider' = [state EXCEPT !.isInitializing = TRUE]
         /\ attempts' = Append(attempts, [call |-> Len(calls) + 1, pc |-> "awaiting"])

\* <FhevmProvider config={config}> is mounted: first render, then the effect
providerMount(config) ==
    /\ ~provider.mounted
    /\ initialize(config, Mounted(config))
    /\ UNCHANGED <<contractVars, encryptVars, decryptVars, hookVars, lifecycleVars>>

\* the parent renders the provider with another config: the effect runs again
providerSetConfig(config) ==
    /\ provider.mounted
    /\ config # provider.config
    /\ initialize(config, [provider EXCEPT !.config = config])
    /\ UNCHANGED <<contractVars, encryptVars, decryptVars, hookVars, lifecycleVars>>

\* the provider renders again with the config it has: no effect runs
providerRerender ==
    /\ provider.mounted
    /\ UNCHANGED vars

\* the provider is unmounted; the effect has no cleanup, so runs of
\* initialize() that still await go on without an instance to update
providerUnmount ==
    /\ provider.mounted
    /\ provider' = Unmounted
    /\ attempts' = [a \in 1..Len(attempts) |->
                       IF attempts[a].pc = "awaiting"
                       THEN [attempts[a] EXCEPT !.pc = "orphaned"]
                       ELSE attempts[a]]
    /\ UNCHANGED <<contractVars, registryVars, encryptVars, decryptVars, hookVars,
                   lifecycleVars>>

\* Faulty variant of the rest of initialize(): no finally block after a
\* failure.
providerResume_NoFinally(a) ==
    /\ attempts[a].pc = "awaiting"
    /\ calls[attempts[a].call].pc \in {"resolved", "rejected"}
    /\ LET call == calls[attempts[a].call]
       IN provider' =
             IF call.pc = "resolved"
             THEN [provider EXCEPT !.client = call.returned,
                                   !.isInitialized = clients[call.returned].isInitialized,
                                   !.error = NoError, !.isInitializing = FALSE]
             ELSE [provider EXCEPT !.error = call.error, !.isInitialized = FALSE]
    /\ attempts' = [attempts EXCEPT ![a].pc = "done"]
    /\ UNCHANGED <<contractVars, registryVars, encryptVars, decryptVars, hookVars,
                   lifecycleVars>>

\* Faulty variant of the rest of initialize(): a failure clears the flags
\* and publishes no error.
providerResume_DropsError(a) ==
    /\ attempts[a].pc = "awaiting"
    /\ calls[attempts[a].call].pc \in {"resolved", "rejected"}
    /\ LET call == calls[attempts[a].call]
       IN provider' =
             IF call.pc = "resolved"
             THEN [provider EXCEPT !.client = call.returned,
                                   !.isInitialized = clients[call.returned].isInitialized,
                                   !.error = NoError, !.isInitializing = FALSE]
             ELSE [provider EXCEPT !.isInitialized = FALSE, !.isInitializing = FALSE]
    /\ attempts' = [attempts EXCEPT ![a].pc = "done"]
    /\ UNCHANGED <<contractVars, registryVars, encryptVars, decryptVars, hookVars,
                   lifecycleVars>>

\* the rest of initialize() once the awaited initFhevm call has settled
providerResume(a) ==
    /\ attempts[a].pc = "awaiting"
    /\ calls[attempts[a].call].pc \in {"resolved", "rejected"}
    /\ LET call == calls[attempts[a].call]
       IN provider' =
             IF call.pc = "resolved"
             THEN [provider EXCEPT !.client = call.returned,
                                   !.isInitialized = clients[call.returned].isInitialized,
                                   !.error = NoError, !.isInitializing = FALSE]
             ELSE [provider EXCEPT !.error = call.error, !.isInitialized = FALSE,
                                   !.isInitializing = FALSE]
    /\ attempts' = [attempts EXCEPT ![a].pc = "done"]
    /\ UNCHANGED <<contractVars, registryVars, encryptVars, decryptVars, hookVars,
                   lifecycleVars>>

\* the rest of initialize() of an instance that was unmounted while it
\* awaited: the same setters are invoked, on an instance that is gone
providerResumeUnmounted(a) ==
    /\ attempts[a].pc = "orphaned"
    /\ calls[attempts[a].call].pc \in {"resolved", "rejected"}
    /\ lateUpdates' = lateUpdates \cup
          {[instance |-> "FhevmProvider",
            cells |-> IF calls[attempts[a].call].pc = "resolved"
                      THEN {"client", "isInitialized", "error", "isInitializing"}
                      ELSE {"error", "isInitialized", "isInitializing"}]}
    /\ attempts' = [attempts EXCEPT ![a].pc = "dropped"]
    /\ UNCHANGED <<contractVars, registryVars, encryptVars, decryptVars, provider,
                   hookVars, hookMounted>>

(***************************************************************************)
(* React adapter: the context and the hooks.  A hook is invoked by a       *)
(* component that is inside the mounted provider's subtree or is not;      *)
(* hookCalls[k] is the k-th call of a function a hook returned: the hook,  *)
(* its arguments, where it stands and the error it threw.  A caller uses   *)
(* the function of the latest render.                                      *)
(***************************************************************************)
\* the default value given to createContext: an object
FhevmContextDefault ==
    [defined |-> TRUE, client |-> Null, isInitialized |-> FALSE,
     isInitializing |-> FALSE, error |-> NoError]

\* useContext(FhevmContext): the value of the nearest provider, or the
\* default value when there is none
useContext(inside) ==
    IF inside
    THEN [defined |-> TRUE, client |-> provider.client,
          isInitialized |-> provider.isInitialized,
          isInitializing |-> provider.isInitializing, error |-> provider.error]
    ELSE FhevmContextDefault

\* useFhevmContext: throws when the context value is falsy
useFhevmContext(inside) ==
    LET context == useContext(inside)
    IN IF ~context.defined
       THEN [threw |-> TRUE, context |-> context]
       ELSE [threw |-> FALSE, context |-> context]

\* useFhevm: the four fields of useFhevmContext()
useFhevm(inside) == useFhevmContext(inside)

NoHookRead == [status |-> "none"]
NoEncryptResult == [status |-> "null", message |-> "", ciphertext |-> <<>>, type |-> ""]
NoDecryptResult == [status |-> "null", message |-> <<>>, value |-> NoValue, type |-> ""]
NotInitialized == <<"FHEVM client not initialized">>

InitHooks ==
    /\ hookRead = NoHookRead
    /\ encryptHook = [isEncrypting |-> FALSE, error |-> NoError, result |-> NoEncryptResult]
    /\ decryptHook = [isDecrypting |-> FALSE, error |-> NoError, result |-> NoDecryptResult]
    /\ hookCalls = <<>>
    /\ hookMounted = [encrypt |-> TRUE, decrypt |-> TRUE]
    /\ lateUpdates = {}

\* the setters a settling call invokes: on a mounted instance they set its
\* state cells (the action gives their new values); on an unmounted one the
\* code invokes them all the same - no callback tests whether its component
\* is mounted - and React has no instance left to update
setStates(instance, mounted, cells) ==
    lateUpdates' = IF mounted
                   THEN lateUpdates
                   ELSE lateUpdates \cup {[instance |-> instance, cells |-> cells]}

\* the component holding a hook instance is unmounted; its calls in flight
\* go on: nothing cancels them
hookUnmount(hook) ==
    /\ hookMounted[hook]
    /\ hookMounted' = [hookMounted EXCEPT ![hook] = FALSE]
    /\ UNCHANGED <<contractVars, registryVars, encryptVars, decryptVars, providerVars,
                   hookVars, lateUpdates>>

\* a component invokes useFhevm()
renderUseFhevm(inside) ==
    /\ inside => provider.mounted
    /\ LET read == useFhevm(inside)
       IN hookRead' = [status |-> IF read.threw THEN "threw" ELSE "returned",
                       inside |-> inside, context |-> read.context]
    /\ UNCHANGED <<contractVars, registryVars, encryptVars, decryptVars, providerVars,
                   lifecycleVars, encryptHook, decryptHook, hookCalls>>

\* values and types the model passes to the hook's encrypt: one accepted,
\* one refused by validateInput
HookEncryptInputs ==
    { <<NumberValue(FALSE, Lit(<<42>>)), "euint32">>,
      <<NumberValue(FALSE, Lit(<<1234>>)), "euint8">> }

NewHookCall(hook, pc, value, type, thrown) ==
    [hook |-> hook, pc |-> pc, value |-> value, type |-> type, thrown |-> thrown]

\* Faulty variant of the encrypt of useEncrypt: the in-flight flag is set
\* before the client is looked at.
useEncryptCall_FlagFirst(inside, value, type) ==
    /\ inside => provider.mounted
    /\ hookMounted.encrypt
    /\ Len(hookCalls) < MaxHookCalls
    /\ LET context == useFhevm(inside).context
       IN IF context.client = Null \/ ~context.isInitialized
          THEN /\ hookCalls' = Append(hookCalls,
                       NewHookCall("encrypt", "rejected", value, type, NotInitialized))
               /\ encryptHook' = [encryptHook EXCEPT !.isEncrypting = TRUE]
          ELSE /\ encryptHook' = [encryptHook EXCEPT !.isEncrypting = TRUE,
                                                     !.error = NoError]
               /\ hookCalls' = Append(hookCalls,
                       NewHookCall("encrypt", "pending", value, type, NoError))
    /\ UNCHANGED <<contractVars, registryVars, encryptVars, decryptVars, providerVars,
                   lifecycleVars, hookRead, decryptHook>>

\* the encrypt of useEncrypt up to its await
useEncryptCall(inside, value, type) ==
    /\ inside => provider.mounted
    /\ hookMounted.encrypt
    /\ Len(hookCalls) < MaxHookCalls
    /\ LET context == useFhevm(inside).context
       IN IF context.client = Null \/ ~context.isInitialized
          THEN /\ hookCalls' = Append(hookCalls,
                       NewHookCall("encrypt", "rejected", value, type, NotInitialized))
               /\ UNCHANGED encryptHook
          ELSE /\ encryptHook' = [encryptHook EXCEPT !.isEncrypting = TRUE,
                                                     !.error = NoError]
               /\ hookCalls' = Append(hookCalls,
                       NewHookCall("encrypt", "pending", value, type, NoError))
    /\ UNCHANGED <<contractVars, registryVars, encryptVars, decryptVars, providerVars,
                   lifecycleVars, hookRead, decryptHook>>

\* the encrypt of useEncrypt after await client.encrypt(value, type)
useEncryptSettle(k) ==
    /\ hookCalls[k].hook = "encrypt"
    /\ hookCalls[k].pc = "pending"
    /\ LET encrypted_ == encrypt(hookCalls[k].value, hookCalls[k].type)
       IN IF encrypted_.status = "resolved"
          THEN /\ setStates("useEncrypt", hookMounted.encrypt, {"result", "isEncrypting"})
               /\ encryptHook' = IF hookMounted.encrypt
                                 THEN [encryptHook EXCEPT !.result = encrypted_,
                                                          !.isEncrypting = FALSE]
                                 ELSE encryptHook
               /\ hookCalls' = [hookCalls EXCEPT ![k].pc = "resolved"]
          ELSE /\ setStates("useEncrypt", hookMounted.encrypt, {"error", "isEncrypting"})
               /\ encryptHook' = IF hookMounted.encrypt
                                 THEN [encryptHook EXCEPT !.error = <<encrypted_.message>>,
                                                          !.isEncrypting = FALSE]
                                 ELSE encryptHook
               /\ hookCalls' = [hookCalls EXCEPT ![k].pc = "rejected",
                                                 ![k].thrown = <<encrypted_.message>>]
    /\ UNCHANGED <<contractVars, registryVars, encryptVars, decryptVars, providerVars,
                   hookMounted, hookRead, decryptHook>>

\* the functions of useDecrypt: decrypt calls client.userDecrypt,
\* publicDecrypt calls client.publicDecrypt
DecryptHookOps == {"decrypt", "publicDecrypt"}
HookDecryptTypes == {"euint32"}

\* decrypt or publicDecrypt of useDecrypt up to its await
useDecryptCall(inside, op, type) ==
    /\ inside => provider.mounted
    /\ hookMounted.decrypt
    /\ Len(hookCalls) < MaxHookCalls
    /\ LET context == useFhevm(inside).context
       IN IF context.client = Null \/ ~context.isInitialized
          THEN /\ hookCalls' = Append(hookCalls,
                       NewHookCall(op, "rejected", BooleanValue(FALSE), type, NotInitialized))
               /\ UNCHANGED decryptHook
          ELSE /\ decryptHook' = [decryptHook EXCEPT !.isDecrypting = TRUE,
                                                     !.error = NoError]
               /\ hookCalls' = Append(hookCalls,
                       NewHookCall(op, "pending", BooleanValue(FALSE), type, NoError))
    /\ UNCHANGED <<contractVars, registryVars, encryptVars, decryptVars, providerVars,
                   lifecycleVars, hookRead, encryptHook>>

\* decrypt or publicDecrypt of useDecrypt after the awaited client call
useDecryptSettle(k, response) ==
    /\ hookCalls[k].hook \in DecryptHookOps
    /\ hookCalls[k].pc = "pending"
    /\ LET decrypted_ == IF hookCalls[k].hook = "decrypt"
                         THEN userDecryptOutcome(hookCalls[k].type, response)
                         ELSE publicDecryptOutcome(hookCalls[k].type, response)
       IN IF decrypted_.status = "resolved"
          THEN /\ setStates("useDecrypt", hookMounted.decrypt, {"result", "isDecrypting"})
               /\ decryptHook' = IF hookMounted.decrypt
                                 THEN [decryptHook EXCEPT !.result = decrypted_,
                                                          !.isDecrypting = FALSE]
                                 ELSE decryptHook
               /\ hookCalls' = [hookCalls EXCEPT ![k].pc = "resolved"]
          ELSE /\ setStates("useDecrypt", hookMounted.decrypt, {"error", "isDecrypting"})
               /\ decryptHook' = IF hookMounted.decrypt
                                 THEN [decryptHook EXCEPT !.error = decrypted_.message,
                                                          !.isDecrypting = FALSE]
                                 ELSE decryptHook
               /\ hookCalls' = [hookCalls EXCEPT ![k].pc = "rejected",
                                                 ![k].thrown = decrypted_.message]
    /\ UNCHANGED <<contractVars, registryVars, encryptVars, decryptVars, providerVars,
                   hookMounted, hookRead, encryptHook>>

(***************************************************************************)
(* Specifications.                                                         *)
(***************************************************************************)
Init == InitContract /\ InitRegistry /\ InitEncrypt /\ InitDecrypt /\ InitProvider /\ InitHooks

\* the contract as src/contracts/README.md defines it
NextContract ==
    \/ \E sender \in Addresses, in \in ListingInputs :
          createListing(sender, in[1], in[2], in[3], in[4])
    \/ \E sender \in Addresses, in \in RequestInputs :
          createRequest(sender, in[1], in[2], in[3], in[4])
    \/ \E sender \in Addresses, l \in 0..listingIdCounter, r \in 0..requestIdCounter :
          createMatch(sender, l, r)
    \/ \E sender \in Addresses, m \in 0..matchCounter : confirmMatch(sender, m)

\* the contract with the test suite's deactivateListing and cancelRequest;
\* createMatch reads no field a listing's arguments set, so one accepted and
\* one refused argument tuple are drawn here
LifecycleListingInputs ==
    { <<Lit(<<2000>>), 2, Lit(<<1, 2345>>), 1>>,
      <<Lit(<<2000>>), 0, Lit(<<1, 2345>>), 1>> }

NextContractLifecycle ==
    \/ \E sender \in Addresses, in \in LifecycleListingInputs :
          createListing(sender, in[1], in[2], in[3], in[4])
    \/ \E sender \in Addresses, in \in RequestInputs :
          createRequest(sender, in[1], in[2], in[3], in[4])
    \/ \E sender \in Addresses, l \in 0..listingIdCounter, r \in 0..requestIdCounter :
          createMatch(sender, l, r)
    \/ \E sender \in Addresses, m \in 0..matchCounter : confirmMatch(sender, m)
    \/ \E sender \in Addresses, l \in 0..listingIdCounter : deactivateListing(sender, l)
    \/ \E sender \in Addresses, r \in 0..requestIdCounter : cancelRequest(sender, r)

\* the contract with the test suite's pause, unpause, addPauser and removePauser
NextContractPause ==
    \/ \E sender \in Addresses, in \in LifecycleListingInputs :
          createListing(sender, in[1], in[2], in[3], in[4])
    \/ \E sender \in Addresses, in \in RequestInputs :
          createRequest(sender, in[1], in[2], in[3], in[4])
    \/ \E sender \in Addresses, l \in 0..listingIdCounter, r \in 0..requestIdCounter :
          createMatch(sender, l, r)
    \/ \E sender \in Addresses, m \in 0..matchCounter : confirmMatch(sender, m)
    \/ \E sender \in Addresses : pause(sender)
    \/ \E sender \in Addresses : unpause(sender)
    \/ \E sender \in Addresses, a \in Addresses \cup {ZeroAddress} : addPauser(sender, a)
    \/ \E sender \in Addresses, a \in Addresses \cup {ZeroAddress} : removePauser(sender, a)

\* the contract called with accepted arguments only: listings and requests
\* that agree in all four fields, and that agree in none
MatchingListingInputs ==
    { <<Lit(<<2000>>), 2, Lit(<<1, 2345>>), 1>>,
      <<Lit(<<42, 9496, 7295>>), 10, <<>>, 3>> }
MatchingRequestInputs ==
    { <<Lit(<<2500>>), 2, Lit(<<1, 2345>>), 1>>,
      <<Lit(<<1000>>), 3, Lit(<<5, 4321>>), 2>> }

NextContractMatching ==
    \/ \E sender \in Addresses, in \in MatchingListingInputs :
          createListing(sender, in[1], in[2], in[3], in[4])
    \/ \E sender \in Addresses, in \in MatchingRequestInputs :
          createRequest(sender, in[1], in[2], in[3], in[4])
    \/ \E sender \in Addresses, l \in 0..listingIdCounter, r \in 0..requestIdCounter :
          createMatch(sender, l, r)
    \/ \E sender \in Addresses, m \in 0..matchCounter : confirmMatch(sender, m)


NextRegistry ==
    \/ \E config \in FhevmConfigs : initFhevm(config)
    \/ \E i \in 1..Len(calls), outcome \in ProbeOutcomes : initFhevmResume(i, outcome)

NextEncrypt ==
    \/ \E value \in EncryptValues, type \in FheTypes : clientEncrypt(value, type)
    \/ clientEncryptSettle

SpecContract == Init /\ [][NextContract]_vars
SpecContractLifecycle == Init /\ [][NextContractLifecycle]_vars
SpecContractPause == Init /\ [][NextContractPause]_vars
SpecContractMatching == Init /\ [][NextContractMatching]_vars

SpecRegistry == Init /\ [][NextRegistry]_vars
SpecEncrypt == Init /\ [][NextEncrypt]_vars

NextDecrypt ==
    \/ \E op \in DecryptOps, type \in FheTypes : clientDecrypt(op, type)
    \/ \E response \in GatewayResponses : clientDecryptSettle(response)

SpecDecrypt == Init /\ [][NextDecrypt]_vars

\* a provider in an application that leaves initFhevm to it
NextProvider ==
    \/ \E config \in FhevmConfigs : providerMount(config)
    \/ \E config \in FhevmConfigs : providerSetConfig(config)
    \/ providerRerender
    \/ providerUnmount
    \/ \E i \in 1..Len(calls), outcome \in ProbeOutcomes : initFhevmResume(i, outcome)
    \/ \E a \in 1..Len(attempts) : providerResume(a)

SpecProvider == Init /\ [][NextProvider]_vars

\* a provider in an application that also calls initFhevm itself, before it
\* mounts a provider that goes on to call initFhevm
NextProviderApp ==
    \/ NextProvider
    \/ \E config \in FhevmConfigs : attempts = <<>> /\ ~provider.mounted /\ initFhevm(config)

SpecProviderApp == Init /\ [][NextProviderApp]_vars

\* every gateway request of the SDK: the provider's probes and the decrypt
\* calls of an application that takes its client from the provider once it
\* is published as ready
NextGateway ==
    \/ NextProvider
    \/ \E op \in DecryptOps, type \in HookDecryptTypes :
          provider.isInitialized /\ provider.client # Null /\ clientDecrypt(op, type)
    \/ \E response \in GatewayResponses : clientDecryptSettle(response)

SpecGateway == Init /\ [][NextGateway]_vars

\* hooks used inside and outside a provider that is mounted once
NextHooks ==
    \/ \E config \in FhevmConfigs : providerMount(config)
    \/ \E i \in 1..Len(calls), outcome \in ProbeOutcomes : initFhevmResume(i, outcome)
    \/ \E a \in 1..Len(attempts) : providerResume(a)
    \/ \E inside \in BOOLEAN : renderUseFhevm(inside)
    \/ \E inside \in BOOLEAN, in \in HookEncryptInputs : useEncryptCall(inside, in[1], in[2])
    \/ \E k \in 1..Len(hookCalls) : useEncryptSettle(k)
    \/ \E inside \in BOOLEAN, op \in DecryptHookOps, type \in HookDecryptTypes :
          useDecryptCall(inside, op, type)
    \/ \E k \in 1..Len(hookCalls), response \in GatewayResponses : useDecryptSettle(k, response)

\* an application that creates clients with initFhevm while the gateway is
\* healthy and calls encrypt and decrypt on them, in any order and
\* overlapping; one gateway answer to a decrypt call is drawn
EncryptClientsResponses == {response \in GatewayResponses : response.value = <<"4", "2">>}

NextEncryptClients ==
    \/ \E config \in FhevmConfigs : Len(calls) < MaxEncryptCalls /\ initFhevm(config)
    \/ \E i \in 1..Len(calls) : initFhevmResume(i, "ok")
    \/ \E c \in 1..Len(clients), in \in HookEncryptInputs :
          clientEncryptCall(c, in[1], in[2])
    \/ \E k \in 1..Len(encryptCalls) : clientEncryptCallSettle(k)
    \/ \E type \in HookDecryptTypes :
          (\E c \in 1..Len(clients) : clients[c].isInitialized) /\ clientDecrypt("decrypt", type)
    \/ \E response \in EncryptClientsResponses : clientDecryptSettle(response)

SpecEncryptClients == Init /\ [][NextEncryptClients]_vars


SpecHooks == Init /\ [][NextHooks]_vars

\* components that unmount while their calls are in flight: a provider
\* that is mounted once, and the components holding a useEncrypt and a
\* useDecrypt instance
LifecycleConfig == [network |-> "sepolia", gatewayUrl |-> "https://gateway.a", debug |-> FALSE]

NextLifecycle ==
    \/ calls = <<>> /\ providerMount(LifecycleConfig)
    \/ providerUnmount
    \/ \E i \in 1..Len(calls), outcome \in ProbeOutcomes : initFhevmResume(i, outcome)
    \/ \E a \in 1..Len(attempts) : providerResume(a)
    \/ \E a \in 1..Len(attempts) : providerResumeUnmounted(a)
    \/ \E in \in HookEncryptInputs : useEncryptCall(TRUE, in[1], in[2])
    \/ \E k \in 1..Len(hookCalls) : useEncryptSettle(k)
    \/ \E op \in DecryptHookOps, type \in HookDecryptTypes : useDecryptCall(TRUE, op, type)
    \/ \E k \in 1..Len(hookCalls), response \in GatewayResponses : useDecryptSettle(k, response)
    \/ \E hook \in {"encrypt", "decrypt"} : hookUnmount(hook)

SpecLifecycle == Init /\ [][NextLifecycle]_vars

(***************************************************************************)
(* Properties of the contract.                                             *)
(***************************************************************************)
CreatedListings == 1..(listingIdCounter - 1)
CreatedRequests == 1..(requestIdCounter - 1)
CreatedMatches == 1..(matchCounter - 1)

\* C1: no listing id and no request id is referenced by two matches, and
\* createMatch reverts for every caller whenever the referenced listing or
\* the referenced request already has its matched flag set.
C1_MatchedAtMostOnce ==
    /\ \A m1 \in CreatedMatches, m2 \in CreatedMatches :
          m1 # m2 => /\ matches[m1].listingId # matches[m2].listingId
                     /\ matches[m1].requestId # matches[m2].requestId
    /\ \A m \in CreatedMatches :
          /\ listings[matches[m].listingId].isMatched
          /\ requests[matches[m].requestId].isMatched
    /\ \A sender \in Addresses, l \in ListingIds, r \in RequestIds :
          (listings[l].isMatched \/ requests[r].isMatched)
             => createMatchRevert(sender, l, r) # ""

\* a matched listing, and an active unmatched request whose owner asks for a
\* second match over that listing and is refused because of the flag
C1_Witness ==
    \E l \in CreatedListings, r \in CreatedRequests :
        /\ listings[l].isMatched
        /\ ~requests[r].isMatched
        /\ createMatchRevert(requests[r].tenant, l, r) = "Listing already matched"

\* C2: for every match, isConfirmed is true exactly when landlordConfirmed
\* and tenantConfirmed are both true.
C2_ConfirmedIffBoth ==
    \A m \in MatchIds :
        matches[m].isConfirmed <=>
            (matches[m].landlordConfirmed /\ matches[m].tenantConfirmed)

\* a match both of whose parties have confirmed
C2_Witness ==
    \E m \in CreatedMatches :
        matches[m].landlordConfirmed /\ matches[m].tenantConfirmed /\ matches[m].isConfirmed

TwoParty(m) ==
    /\ matches[m].landlord # ZeroAddress
    /\ matches[m].landlord # matches[m].tenant

\* C4: for a match between two different identities, with the contract
\* unpaused: the first confirmMatch of the landlord and the first of the
\* tenant both succeed, in either order; the step of the first leaves
\* isConfirmed false and the step of the second sets it, so isConfirmed is
\* false while only one has confirmed and true once both have.
C4_BothConfirmEitherOrder ==
    /\ [](\A m \in MatchIds :
            (TwoParty(m) /\ ~isPaused) =>
               /\ ~matches[m].landlordConfirmed
                     => confirmMatchRevert(matches[m].landlord, m) = ""
               /\ ~matches[m].tenantConfirmed
                     => confirmMatchRevert(matches[m].tenant, m) = "")
    /\ [](\A m \in MatchIds :
            TwoParty(m) =>
               /\ (matches[m].landlordConfirmed /\ matches[m].tenantConfirmed)
                     => matches[m].isConfirmed
               /\ (matches[m].landlordConfirmed # matches[m].tenantConfirmed)
                     => ~matches[m].isConfirmed)
    /\ [][\A m \in MatchIds :
            (TwoParty(m) /\ confirmMatch(matches[m].landlord, m)) =>
               /\ matches'[m].landlordConfirmed
               /\ matches'[m].tenantConfirmed = matches[m].tenantConfirmed
               /\ matches'[m].isConfirmed = matches[m].tenantConfirmed]_vars
    /\ [][\A m \in MatchIds :
            (TwoParty(m) /\ confirmMatch(matches[m].tenant, m)) =>
               /\ matches'[m].tenantConfirmed
               /\ matches'[m].landlordConfirmed = matches[m].landlordConfirmed
               /\ matches'[m].isConfirmed = matches[m].landlordConfirmed]_vars

\* a match between two different identities that both have confirmed, in a
\* contract that was paused and unpaused along the way or not
C4_Witness ==
    \E m \in CreatedMatches :
        /\ TwoParty(m)
        /\ ~isPaused
        /\ matches[m].landlordConfirmed
        /\ matches[m].tenantConfirmed
        /\ matches[m].isConfirmed

ConfirmationFlags(m) ==
    <<matches[m].landlordConfirmed, matches[m].tenantConfirmed, matches[m].isConfirmed>>

\* C5: confirmMatch reverts for a caller that is neither the landlord nor
\* the tenant of the match, for a match id that was never created, and for a
\* party whose confirmation is already recorded; a confirmation flag changes
\* only in a step that is a confirmMatch, not reverting, by a party of that
\* match, and that step records the confirmation of that party alone.
C5_ConfirmOncePerParty ==
    /\ [](\A sender \in Addresses, m \in MatchIds :
            /\ m \notin CreatedMatches => confirmMatchRevert(sender, m) # ""
            /\ (sender # matches[m].landlord /\ sender # matches[m].tenant)
                  => confirmMatchRevert(sender, m) # ""
            /\ (sender = matches[m].landlord /\ matches[m].landlordConfirmed)
                  => confirmMatchRevert(sender, m) # ""
            /\ (sender = matches[m].tenant /\ matches[m].tenantConfirmed)
                  => confirmMatchRevert(sender, m) # "")
    /\ [][\A m \in CreatedMatches :
            ConfirmationFlags(m)' # ConfirmationFlags(m) =>
               \E sender \in {matches[m].landlord, matches[m].tenant} :
                  /\ confirmMatchRevert(sender, m) = ""
                  /\ confirmMatch(sender, m)
                  /\ IF sender = matches[m].landlord
                     THEN /\ ~matches[m].landlordConfirmed
                          /\ matches'[m].landlordConfirmed
                          /\ matches'[m].tenantConfirmed = matches[m].tenantConfirmed
                     ELSE /\ ~matches[m].tenantConfirmed
                          /\ matches'[m].tenantConfirmed
                          /\ matches'[m].landlordConfirmed = matches[m].landlordConfirmed]_vars

\* a match its landlord has confirmed and its tenant has not: a second
\* confirmMatch of the landlord is refused because of the landlord's flag,
\* and a stranger's because it is no party
C5_Witness ==
    \E m \in CreatedMatches, stranger \in Addresses :
        /\ matches[m].landlordConfirmed
        /\ ~matches[m].isConfirmed
        /\ confirmMatchRevert(matches[m].landlord, m) = "Already confirmed by landlord"
        /\ confirmMatchRevert(stranger, m) = "Not authorized to confirm this match"

\* C6: a confirmation flag of a match and the matched flag of a listing or
\* a request, once true, is true in every later state, and confirmMatch
\* reverts for every caller on a match that is confirmed.
C6_Irreversible ==
    /\ [][/\ \A m \in MatchIds :
               /\ matches[m].landlordConfirmed => matches'[m].landlordConfirmed
               /\ matches[m].tenantConfirmed => matches'[m].tenantConfirmed
               /\ matches[m].isConfirmed => matches'[m].isConfirmed
          /\ \A l \in ListingIds : listings[l].isMatched => listings'[l].isMatched
          /\ \A r \in RequestIds : requests[r].isMatched => requests'[r].isMatched]_vars
    /\ [](\A sender \in Addresses, m \in MatchIds :
            matches[m].isConfirmed => confirmMatchRevert(sender, m) # "")

\* a confirmed match over a matched listing and a matched request
C6_Witness ==
    \E m \in CreatedMatches :
        /\ matches[m].isConfirmed
        /\ listings[matches[m].listingId].isMatched
        /\ requests[matches[m].requestId].isMatched

\* C7: createMatch reverts for every caller when the listing id or the
\* request id was never created and when the listing or the request is not
\* active; every step that creates a match is a createMatch on a created,
\* active listing and a created, active request.
C7_NeedsActiveRecords ==
    /\ [](\A sender \in Addresses, l \in ListingIds, r \in RequestIds :
            (\/ l \notin CreatedListings
             \/ r \notin CreatedRequests
             \/ ~listings[l].isActive
             \/ ~requests[r].isActive)
               => createMatchRevert(sender, l, r) # "")
    /\ [][matchCounter' # matchCounter =>
            \E sender \in Addresses, l \in CreatedListings, r \in CreatedRequests :
               listings[l].isActive /\ requests[r].isActive /\ createMatch(sender, l, r)]_vars

\* a request its owner cancelled next to an active unmatched listing:
\* createMatch is refused to both owners for the inactive request alone
C7_Witness ==
    \E l \in CreatedListings, r \in CreatedRequests :
        /\ listings[l].isActive /\ ~listings[l].isMatched
        /\ ~requests[r].isActive /\ ~requests[r].isMatched
        /\ createMatchRevert(requests[r].tenant, l, r) = "Request not active"
        /\ createMatchRevert(listings[l].landlord, l, r) = "Request not active"

(***************************************************************************)
(* Properties of the client registry.                                      *)
(***************************************************************************)
InitFhevmCalls == 1..Len(calls)
ReadyClients == {c \in 1..Len(clients) : clients[c].isInitialized}

\* C8: an initFhevm call made after some call has succeeded returns at once
\* the very client that call returned, issues no health probe, and the
\* client still carries the configuration of the call that created it.
C8_IdempotentOnceReady ==
    \A i \in InitFhevmCalls :
        \A c \in calls[i].readyBefore :
            /\ calls[i].pc = "resolved"
            /\ calls[i].returned = c
            /\ calls[i].probes = 0
            /\ \A j \in InitFhevmCalls :
                  (calls[j].probes = 1 /\ calls[j].client = c)
                     => clients[c].config = calls[j].config

\* C9: at most one client is ready, and every client a resolved initFhevm
\* call returned is the one client getFhevmClient() returns.
C9_OneReadyClient ==
    /\ Cardinality(ReadyClients) <= 1
    /\ \A i \in InitFhevmCalls :
          calls[i].pc = "resolved" => calls[i].returned = getFhevmClient

(***************************************************************************)
(* Properties of encrypt.                                                  *)
(***************************************************************************)
UnsignedTypes == {"euint8", "euint16", "euint32", "euint64", "euint128", "euint256"}

\* width(T) / 8
WidthBytes(type) ==
    CASE type = "euint8" -> 1
      [] type = "euint16" -> 2
      [] type = "euint32" -> 4
      [] type = "euint64" -> 8
      [] type = "euint128" -> 16
      [] type = "euint256" -> 32

\* 2^width(T) - 1
MaxOfWidth(type) ==
    CASE type = "euint8" -> Lit(<<255>>)
      [] type = "euint16" -> Lit(<<6, 5535>>)
      [] type = "euint32" -> Lit(<<42, 9496, 7295>>)
      [] type = "euint64" -> Lit(<<1844, 6744, 737, 955, 1615>>)
      [] type = "euint128" ->
           Lit(<<340, 2823, 6692, 938, 4634, 6337, 4607, 4317, 6821, 1455>>)
      [] type = "euint256" ->
           Lit(<<11, 5792, 892, 3731, 6195, 4235, 7098, 5008, 6879, 785,
                 3269, 9846, 6564, 564, 394, 5758, 4007, 9131, 2963, 9935>>)

\* value is an integer v with 0 <= v < 2^width(type)
InRange(value, type) ==
    /\ value.kind \in {"bigint", "number"}
    /\ value.integral
    /\ ~value.big.neg
    /\ MagCmp(value.big.mag, MaxOfWidth(type)) <= 0

\* the hex digits of a ciphertext: what stands between "0x" and the type name
PayloadHex(ciphertext) == SubSeq(ciphertext, 3, Len(ciphertext) - 1)

HexValue(d) == CHOOSE n \in 0..15 : HexDigits[n + 1] = d

\* the unsigned integer whose little-endian bytes the hex digits spell:
\* Horner's rule from the last (most significant) byte down to byte 1
RECURSIVE DecodeFrom(_, _, _)
DecodeFrom(hex, i, acc) ==
    IF Len(acc) >= 0 /\ i = 0 THEN acc
    ELSE DecodeFrom(hex, i - 1,
                    MagMulAdd(acc, 256,
                              16 * HexValue(hex[2 * i - 1]) + HexValue(hex[2 * i])))

DecodeLittleEndian(hex) == DecodeFrom(hex, Len(hex) \div 2, <<>>)

\* C10: encrypt(v, T) for an unsigned type T and an integer v with
\* 0 <= v < 2^width(T) resolves, with type T and a ciphertext whose payload is
\* exactly width(T)/8 bytes (two hex digits each) that decode, little-endian,
\* to v.
C10_EncryptRoundTrip ==
    (/\ encrypted.status = "settled"
     /\ encrypted.type \in UnsignedTypes
     /\ InRange(encrypted.value, encrypted.type))
       => /\ encrypted.outcome.status = "resolved"
          /\ encrypted.outcome.type = encrypted.type
          /\ Len(encrypted.outcome.ciphertext) = 2 * WidthBytes(encrypted.type) + 3
          /\ encrypted.outcome.ciphertext[1] = "0"
          /\ encrypted.outcome.ciphertext[2] = "x"
          /\ DecodeLittleEndian(PayloadHex(encrypted.outcome.ciphertext))
                = encrypted.value.big.mag

\* encrypt has settled for 2^128 - 1 as euint128, a value whose sixteen bytes
\* are all needed, and the round trip holds
C10_Witness ==
    /\ encrypted.status = "settled"
    /\ encrypted.type = "euint128"
    /\ encrypted.value = BigIntValue(FALSE, MaxOfWidth("euint128"))
    /\ encrypted.outcome.status = "resolved"
    /\ Len(PayloadHex(encrypted.outcome.ciphertext)) = 32

\* value is an integer v with v < 0 or v >= 2^width(type)
OutOfRange(value, type) ==
    /\ value.kind \in {"bigint", "number"}
    /\ value.integral
    /\ (value.big.neg \/ MagCmp(value.big.mag, MaxOfWidth(type)) > 0)

\* C11: encrypt(v, T) for an unsigned type T and an integer v with v < 0 or
\* v >= 2^width(T) rejects with the validation error and yields no
\* ciphertext.
C11_OutOfRangeRejected ==
    (/\ encrypted.status = "settled"
     /\ encrypted.type \in UnsignedTypes
     /\ OutOfRange(encrypted.value, encrypted.type))
       => /\ encrypted.outcome.status = "rejected"
          /\ encrypted.outcome.message = "Invalid input for type"
          /\ encrypted.outcome.ciphertext = <<>>

\* C12: the resumption of an initFhevm call whose probe failed, by a
\* response that is not ok or by a network error, rejects the call with the
\* initialization error, returns no client, and leaves getFhevmClient() and
\* the set of ready clients as they were; a rejected call has issued its own
\* probe, and a call that issues no probe is one that found a ready client:
\* a call made after a rejection probes afresh unless a client is ready.
C12_ProbeFailure ==
    /\ [][\A i \in InitFhevmCalls, outcome \in ProbeOutcomes \ {"ok"} :
            initFhevmResume(i, outcome) =>
               /\ calls'[i].pc = "rejected"
               /\ calls'[i].returned = Null
               /\ calls'[i].error = InitError(calls[i].config.gatewayUrl)
               /\ getFhevmClient' = getFhevmClient
               /\ ReadyClients' = ReadyClients]_vars
    /\ [](\A i \in InitFhevmCalls :
            /\ calls[i].pc = "rejected" => (calls[i].probes = 1 /\ calls[i].returned = Null)
            /\ calls[i].probes = 0 => calls[i].readyBefore # {}
            /\ (calls[i].rejectedBefore # {} /\ calls[i].readyBefore = {})
                  => calls[i].probes = 1)

\* a call rejected by its probe, no client registered, and a call made after
\* that rejection which issued a probe of its own and resolved
C12_Witness ==
    \E i, j \in InitFhevmCalls :
        /\ calls[i].pc = "rejected"
        /\ calls[i].error # NoError
        /\ i \in calls[j].rejectedBefore
        /\ calls[j].probes = 1
        /\ calls[j].pc = "resolved"
        /\ getFhevmClient = calls[j].returned

(***************************************************************************)
(* Properties of decrypt, publicDecrypt, userDecrypt and of the gateway    *)
(* requests.                                                               *)
(***************************************************************************)
\* C13: a decrypt, publicDecrypt or userDecrypt call the gateway answered
\* with a status that is not ok is rejected with a message that carries the
\* status text and has no value; one the gateway answered with ok resolves
\* with the requested type.
C13_DecryptOutcome ==
    decrypted.status = "settled" =>
       /\ decrypted.response.kind = "not ok" =>
             /\ decrypted.outcome.status = "rejected"
             /\ \E n \in 1..Len(decrypted.outcome.message) :
                   decrypted.outcome.message[n] = decrypted.response.statusText
             /\ decrypted.outcome.value = NoValue
       /\ decrypted.response.kind = "ok" =>
             /\ decrypted.outcome.status = "resolved"
             /\ decrypted.outcome.type = decrypted.type

C15_ThrowsOutsideProvider ==
    hookRead.status # "none" =>
       IF hookRead.inside
       THEN hookRead.status = "returned"
       ELSE hookRead.status = "threw"

NotReady(inside) ==
    useContext(inside).client = Null \/ ~useContext(inside).isInitialized

\* C16: a call of the encrypt hook's encrypt, or of the decrypt hook's
\* decrypt or publicDecrypt, made while the published client is absent or
\* the published ready flag is false is rejected in that very step with the
\* not-initialized error: it never awaits the client, and the hook's state,
\* its in-flight flag included, is as before.
C16_NotReadyRejects ==
    /\ [][\A inside \in BOOLEAN, in \in HookEncryptInputs :
            (NotReady(inside) /\ useEncryptCall(inside, in[1], in[2])) =>
               /\ hookCalls'[Len(hookCalls')].pc = "rejected"
               /\ hookCalls'[Len(hookCalls')].thrown = NotInitialized
               /\ encryptHook' = encryptHook]_vars
    /\ [][\A inside \in BOOLEAN, op \in DecryptHookOps, type \in HookDecryptTypes :
            (NotReady(inside) /\ useDecryptCall(inside, op, type)) =>
               /\ hookCalls'[Len(hookCalls')].pc = "rejected"
               /\ hookCalls'[Len(hookCalls')].thrown = NotInitialized
               /\ decryptHook' = decryptHook]_vars

\* inside a provider that has not finished initializing, an encrypt call
\* and a publicDecrypt call were rejected as not initialized and neither
\* in-flight flag is set
C16_Witness ==
    /\ provider.mounted
    /\ provider.client = Null
    /\ \E k \in 1..Len(hookCalls) :
          /\ hookCalls[k].hook = "encrypt"
          /\ hookCalls[k].pc = "rejected"
          /\ hookCalls[k].thrown = NotInitialized
    /\ \E k \in 1..Len(hookCalls) :
          /\ hookCalls[k].hook = "publicDecrypt"
          /\ hookCalls[k].pc = "rejected"
          /\ hookCalls[k].thrown = NotInitialized
    /\ ~encryptHook.isEncrypting
    /\ ~decryptHook.isDecrypting

\* C17: in the step in which a call made through a hook fails, the error
\* thrown to the caller is also the hook's error state.
C17_FailureStoredAndThrown ==
    [][\A k \in 1..Len(hookCalls') :
          (/\ hookCalls'[k].pc = "rejected"
           /\ (k > Len(hookCalls) \/ hookCalls[k].pc # "rejected"))
             => /\ hookCalls'[k].thrown # NoError
                /\ hookCalls'[k].thrown =
                      (IF hookCalls'[k].hook = "encrypt"
                       THEN encryptHook'.error ELSE decryptHook'.error)]_vars

PendingCalls(hooks) ==
    {k \in 1..Len(hookCalls) : hookCalls[k].hook \in hooks /\ hookCalls[k].pc = "pending"}

\* C18: isEncrypting is true exactly while an encrypt call of the hook is
\* pending, and isDecrypting exactly while a decrypt or publicDecrypt call
\* of the hook is pending.
C18_InFlightTracksPending ==
    /\ encryptHook.isEncrypting <=> PendingCalls({"encrypt"}) # {}
    /\ decryptHook.isDecrypting <=> PendingCalls(DecryptHookOps) # {}

\* C19: the rest of initialize() after a failed initFhevm publishes the
\* error with isInitialized and isInitializing false; after a successful
\* one, and when initialize() finds a ready client, the provider publishes
\* the client with isInitialized true, isInitializing false and no error.
C19_ProviderPublishes ==
    /\ [][\A a \in 1..Len(attempts) :
            providerResume(a) =>
               IF calls[attempts[a].call].pc = "rejected"
               THEN /\ provider'.error = calls[attempts[a].call].error
                    /\ provider'.error # NoError
                    /\ ~provider'.isInitialized
                    /\ ~provider'.isInitializing
               ELSE /\ provider'.client = calls[attempts[a].call].returned
                    /\ provider'.client # Null
                    /\ provider'.isInitialized
                    /\ ~provider'.isInitializing
                    /\ provider'.error = NoError]_vars
    /\ [][(/\ provider'.mounted
           /\ (~provider.mounted \/ provider'.config # provider.config)
           /\ Len(calls') = Len(calls))
             => /\ provider'.client = getFhevmClient
                /\ provider'.client # Null
                /\ provider'.isInitialized
                /\ ~provider'.isInitializing
                /\ provider'.error = NoError]_vars

\* a mounted provider that publishes the error of its failed attempt, with
\* both flags false and no client
C19_Witness ==
    /\ provider.mounted
    /\ provider.error # NoError
    /\ provider.client = Null
    /\ ~provider.isInitialized
    /\ ~provider.isInitializing
    /\ \E a \in 1..Len(attempts) :
          attempts[a].pc = "done" /\ calls[attempts[a].call].pc = "rejected"

(***************************************************************************)
(* Properties of the pause flag.                                           *)
(***************************************************************************)
AcceptedListingInputs ==
    {in \in ListingInputs : in[1] # <<>> /\ in[2] \in 1..10 /\ in[4] \in 1..3}
AcceptedRequestInputs ==
    {in \in RequestInputs : in[1] # <<>> /\ in[2] \in 1..10 /\ in[4] \in 1..3}

\* C20: while isPaused is set createListing, createRequest and createMatch
\* revert for every caller and argument and no step changes a listing, a
\* request, a match, a counter or a user's list, while the view functions
\* return what is stored; when isPaused is clear, as it is after unpause,
\* createListing and createRequest accept the arguments they accept
\* otherwise and createMatch is open to the landlord and the tenant of an
\* active, unmatched listing and request.
C20_PauseBlocks ==
    /\ [](isPaused =>
            /\ \A in \in ListingInputs :
                  createListingRevert(in[1], in[2], in[3], in[4]) # ""
            /\ \A in \in RequestInputs :
                  createRequestRevert(in[1], in[2], in[3], in[4]) # ""
            /\ \A sender \in Addresses, l \in ListingIds, r \in RequestIds :
                  createMatchRevert(sender, l, r) # ""
            /\ \A a \in Addresses :
                  /\ getUserListings(a) = userListings[a]
                  /\ getUserRequests(a) = userRequests[a]
            /\ getActiveListingsCount \in 0..(listingIdCounter - 1)
            /\ getActiveRequestsCount \in 0..(requestIdCounter - 1))
    /\ [][isPaused =>
            UNCHANGED <<listings, requests, matches, listingIdCounter, requestIdCounter,
                        matchCounter, userListings, userRequests>>]_vars
    /\ [][\A sender \in Addresses : unpause(sender) => ~isPaused']_vars
    /\ [](~isPaused =>
            /\ \A in \in AcceptedListingInputs :
                  createListingRevert(in[1], in[2], in[3], in[4]) = ""
            /\ \A in \in AcceptedRequestInputs :
                  createRequestRevert(in[1], in[2], in[3], in[4]) = ""
            /\ \A l \in CreatedListings, r \in CreatedRequests :
                  (/\ listings[l].isActive /\ ~listings[l].isMatched
                   /\ requests[r].isActive /\ ~requests[r].isMatched)
                     => /\ createMatchRevert(listings[l].landlord, l, r) = ""
                        /\ createMatchRevert(requests[r].tenant, l, r) = "")

\* a paused contract holding an active unmatched listing and request whose
\* createMatch is refused to the landlord because of the pause
C20_Witness ==
    /\ isPaused
    /\ \E l \in CreatedListings, r \in CreatedRequests :
          /\ listings[l].isActive /\ ~listings[l].isMatched
          /\ requests[r].isActive /\ ~requests[r].isMatched
          /\ createMatchRevert(listings[l].landlord, l, r) = "Contract is paused"
    /\ \A in \in AcceptedListingInputs :
          createListingRevert(in[1], in[2], in[3], in[4]) = "Contract is paused"

\* C21: pause() is accepted exactly from an allow-listed pauser while the
\* contract is not paused, and unpause() exactly from an allow-listed pauser
\* while it is paused; an accepted pause() sets isPaused and an accepted
\* unpause() clears it; and isPaused changes in no other way, so a refused
\* call leaves it as it was.
C21_PauseByPausers ==
    /\ [](\A sender \in Addresses :
            /\ (pauseRevert(sender) = "") <=> (isPauserAddress[sender] /\ ~isPaused)
            /\ (unpauseRevert(sender) = "") <=> (isPauserAddress[sender] /\ isPaused))
    /\ [][\A sender \in Addresses :
            /\ pause(sender) => isPaused'
            /\ unpause(sender) => ~isPaused']_vars
    /\ [][isPaused' # isPaused =>
            \E sender \in Addresses :
               /\ isPauserAddress[sender]
               /\ IF isPaused THEN unpause(sender) ELSE pause(sender)]_vars

\* a paused contract, which a pauser may unpause and may not pause again,
\* with an identity that is no pauser and is refused
C21_Witness ==
    /\ isPaused
    /\ \E sender \in Addresses :
          /\ isPauserAddress[sender]
          /\ unpauseRevert(sender) = ""
          /\ pauseRevert(sender) = "Pausable: paused"
    /\ \E sender \in Addresses :
          /\ ~isPauserAddress[sender]
          /\ unpauseRevert(sender) = "Not authorized to pause"
          /\ pauseRevert(sender) = "Not authorized to pause"

\* the addresses passed to the constructor
ConstructorPausers == {PauserAddressesArg[i] : i \in 1..Len(PauserAddressesArg)}

\* C22: right after deployment the pausers are exactly the addresses passed
\* to the constructor; addPauser(a) is accepted only from the owner and
\* only for a non-zero a, removePauser(a) only from the owner; an accepted
\* addPauser(a) makes a a pauser and an accepted removePauser(a) makes it
\* none; and the allow-list changes in no other way, so a call by anyone
\* else leaves it as it was.
C22_PausersManagedByOwner ==
    /\ \A a \in Addresses \cup {ZeroAddress} : isPauserAddress[a] <=> a \in ConstructorPausers
    /\ [](\A sender \in Addresses, a \in Addresses \cup {ZeroAddress} :
            /\ (addPauserRevert(sender, a) = "") => (sender = owner /\ a # ZeroAddress)
            /\ (removePauserRevert(sender, a) = "") => sender = owner
            /\ sender # owner => /\ addPauserRevert(sender, a) # ""
                                 /\ removePauserRevert(sender, a) # "")
    /\ [][\A sender \in Addresses, a \in Addresses \cup {ZeroAddress} :
            /\ addPauser(sender, a) => isPauserAddress'[a]
            /\ removePauser(sender, a) => ~isPauserAddress'[a]]_vars
    /\ [][isPauserAddress' # isPauserAddress =>
            \E a \in Addresses \cup {ZeroAddress} :
               addPauser(owner, a) \/ removePauser(owner, a)]_vars

\* the owner has added a pauser the constructor was not given and removed
\* one it was given, and an identity that is not the owner is refused both
C22_Witness ==
    /\ \E a \in Addresses : a \notin ConstructorPausers /\ isPauserAddress[a]
    /\ \E a \in ConstructorPausers : ~isPauserAddress[a]
    /\ \E sender \in Addresses, a \in Addresses :
          /\ sender # owner
          /\ addPauserRevert(sender, a) = "Ownable: caller is not the owner"
          /\ removePauserRevert(sender, a) = "Ownable: caller is not the owner"
    /\ addPauserRevert(owner, ZeroAddress) = "Invalid pauser address"

\* C23: deactivateListing(id) is accepted only from the landlord of a
\* listing that was created, and then leaves that listing inactive and
\* everything else of it as it was; a listing's active flag is cleared by
\* no step but its landlord's deactivateListing, so a call by another
\* identity or on an id never created changes nothing.  The same holds of
\* cancelRequest(id), requests and their tenants.
C23_OnlyOwnerDeactivates ==
    /\ [](\A sender \in Addresses :
            /\ \A id \in ListingIds :
                  (deactivateListingRevert(sender, id) = "")
                     => (id \in CreatedListings /\ sender = listings[id].landlord)
            /\ \A id \in RequestIds :
                  (cancelRequestRevert(sender, id) = "")
                     => (id \in CreatedRequests /\ sender = requests[id].tenant))
    /\ [][\A sender \in Addresses :
            /\ \A id \in ListingIds :
                  deactivateListing(sender, id)
                     => listings' = [listings EXCEPT ![id].isActive = FALSE]
            /\ \A id \in RequestIds :
                  cancelRequest(sender, id)
                     => requests' = [requests EXCEPT ![id].isActive = FALSE]]_vars
    /\ [][/\ \A id \in ListingIds :
                (listings[id].isActive /\ ~listings'[id].isActive)
                   => deactivateListing(listings[id].landlord, id)
          /\ \A id \in RequestIds :
                (requests[id].isActive /\ ~requests'[id].isActive)
                   => cancelRequest(requests[id].tenant, id)]_vars

\* a listing its landlord has deactivated and a request its tenant has
\* cancelled, with another identity refused on each and an id never created
\* refused to all
C23_Witness ==
    /\ \E id \in CreatedListings, other \in Addresses :
          /\ ~listings[id].isActive
          /\ other # listings[id].landlord
          /\ deactivateListingRevert(other, id) = "Not the listing owner"
    /\ \E id \in CreatedRequests, other \in Addresses :
          /\ ~requests[id].isActive
          /\ other # requests[id].tenant
          /\ cancelRequestRevert(other, id) = "Not the request owner"
    /\ \A sender \in Addresses :
          /\ deactivateListingRevert(sender, listingIdCounter) = "Listing does not exist"
          /\ cancelRequestRevert(sender, requestIdCounter) = "Request does not exist"

\* C24: a step that changes anything of the contract's state is a call
\* that passed every check of its operation; a createListing,
\* createRequest, createMatch or confirmMatch that a validation, pause,
\* existence, matched-flag or authorization check refuses therefore leaves
\* every record, flag, counter and id list as it was.
C24_FailureChangesNothing ==
    [][contractVars' # contractVars =>
         \/ \E sender \in Addresses, in \in ListingInputs :
               /\ createListingRevert(in[1], in[2], in[3], in[4]) = ""
               /\ createListing(sender, in[1], in[2], in[3], in[4])
         \/ \E sender \in Addresses, in \in RequestInputs :
               /\ createRequestRevert(in[1], in[2], in[3], in[4]) = ""
               /\ createRequest(sender, in[1], in[2], in[3], in[4])
         \/ \E sender \in Addresses, l \in ListingIds, r \in RequestIds :
               /\ createMatchRevert(sender, l, r) = ""
               /\ createMatch(sender, l, r)
         \/ \E sender \in Addresses, m \in MatchIds :
               /\ confirmMatchRevert(sender, m) = ""
               /\ confirmMatch(sender, m)
         \/ \E sender \in Addresses : pause(sender) \/ unpause(sender)
         \/ \E sender \in Addresses, a \in Addresses \cup {ZeroAddress} :
               addPauser(sender, a) \/ removePauser(sender, a)]_vars

\* an unpaused contract with a matched listing and request where a call
\* fails on a validation check, on an existence check, on a matched-flag
\* check and on an authorization check
C24_Witness ==
    /\ ~isPaused
    /\ \E in \in ListingInputs :
          createListingRevert(in[1], in[2], in[3], in[4]) = "Invalid bedroom count"
    /\ \E in \in RequestInputs :
          createRequestRevert(in[1], in[2], in[3], in[4]) = "Budget must be greater than 0"
    /\ \E m \in CreatedMatches, sender \in Addresses :
          /\ createMatchRevert(matches[m].landlord, matches[m].listingId, matches[m].requestId)
                = "Listing already matched"
          /\ confirmMatchRevert(sender, m) = "Not authorized to confirm this match"
          /\ confirmMatchRevert(sender, matchCounter) = "Match does not exist"

(***************************************************************************)
(* Properties of the counters, the argument checks and the id lists.       *)
(***************************************************************************)
\* the records some successful call has stored: a stored record holds the
\* non-zero address of the caller that created it
StoredListings == {i \in ListingIds : listings[i].landlord # ZeroAddress}
StoredRequests == {i \in RequestIds : requests[i].tenant # ZeroAddress}
StoredMatches == {i \in MatchIds : matches[i].landlord # ZeroAddress}

\* C25: in every reachable state, the state right after deployment
\* included, each counter equals the number of listings, of requests and of
\* matches created so far: 0 before the first creation, 1 after it.
C25_CountersCountCreations ==
    /\ listingIdCounter = Cardinality(StoredListings)
    /\ requestIdCounter = Cardinality(StoredRequests)
    /\ matchCounter = Cardinality(StoredMatches)

\* C26: createListing refuses every call whose price, bedroom count or
\* postal code is 0 and createRequest every call whose max budget or
\* minimum bedroom count is 0, so that no stored listing or request holds
\* a 0 in one of these fields.
C26_ZeroArgumentsRejected ==
    /\ \A in \in ListingInputs :
          (in[1] = <<>> \/ in[2] = 0 \/ in[3] = <<>>)
             => createListingRevert(in[1], in[2], in[3], in[4]) # ""
    /\ \A in \in RequestInputs :
          (in[1] = <<>> \/ in[2] = 0)
             => createRequestRevert(in[1], in[2], in[3], in[4]) # ""
    /\ \A i \in StoredListings :
          /\ listings[i].encryptedPrice # <<>>
          /\ listings[i].encryptedBedrooms # 0
          /\ listings[i].encryptedPostalCode # <<>>
    /\ \A i \in StoredRequests :
          /\ requests[i].encryptedMaxBudget # <<>>
          /\ requests[i].encryptedMinBedrooms # 0

\* the arguments the numeric claim speaks of: a price in 1..2^32-1, a
\* bedroom count in 1..255 and a property type in 1..3, with any postal code
FullRangeListingInputs ==
    {in \in ListingInputs :
        /\ in[1] # <<>> /\ MagCmp(in[1], MaxOfWidth("euint32")) <= 0
        /\ in[2] \in 1..255
        /\ in[4] \in 1..3}

\* C27: on the unpaused contract createListing accepts every price in
\* 1..2^32-1 with every bedroom count in 1..255, the maxima 4294967295 and
\* 255 included.
C27_FullRangeAccepted ==
    ~isPaused =>
       \A in \in FullRangeListingInputs :
          createListingRevert(in[1], in[2], in[3], in[4]) = ""

StrictlyIncreasing(ids) == \A j, k \in 1..Len(ids) : j < k => ids[j] < ids[k]
Elements(ids) == {ids[k] : k \in 1..Len(ids)}

\* C28: the listings stored are those of ids 1..n and the requests stored
\* those of ids 1..m, each creation taking the next id; and for every
\* identity u getUserListings(u) holds exactly the ids of the listings u
\* created, in increasing order, which is their creation order, each once,
\* a creation by u appending its id; the same holds of getUserRequests(u);
\* either is empty for an identity that created none.
C28_IdsInCreationOrder ==
    /\ [](/\ StoredListings = 1..Cardinality(StoredListings)
          /\ StoredRequests = 1..Cardinality(StoredRequests)
          /\ \A u \in Addresses :
                /\ StrictlyIncreasing(getUserListings(u))
                /\ Elements(getUserListings(u))
                      = {i \in StoredListings : listings[i].landlord = u}
                /\ StrictlyIncreasing(getUserRequests(u))
                /\ Elements(getUserRequests(u))
                      = {i \in StoredRequests : requests[i].tenant = u})
    /\ [][/\ StoredListings' # StoredListings =>
                /\ StoredListings' = StoredListings \cup {Cardinality(StoredListings) + 1}
                /\ \E u \in Addresses :
                      getUserListings(u)'
                         = Append(getUserListings(u), Cardinality(StoredListings) + 1)
          /\ StoredRequests' # StoredRequests =>
                /\ StoredRequests' = StoredRequests \cup {Cardinality(StoredRequests) + 1}
                /\ \E u \in Addresses :
                      getUserRequests(u)'
                         = Append(getUserRequests(u), Cardinality(StoredRequests) + 1)]_vars

\* an identity that created two listings next to one that created a listing
\* between them and a third that created none
C28_Witness ==
    \E u, v, w \in Addresses :
       /\ getUserListings(u) = <<1, 3>>
       /\ getUserListings(v) = <<2>>
       /\ getUserListings(w) = <<>>
       /\ getUserRequests(u) = <<>>

(***************************************************************************)
(* Properties of the provider's initialization attempts.                   *)
(***************************************************************************)
\* the runs of initialize() of the mounted provider that await initFhevm
InFlightAttempts == {a \in 1..Len(attempts) : attempts[a].pc = "awaiting"}

\* C29: at no time do two runs of initialize() of one provider await
\* together, and the run whose resumption leaves none awaiting is the one
\* started last, so that what the provider publishes once all have settled
\* is the outcome of its latest attempt.
C29_AttemptsSerialized ==
    /\ [](Cardinality(InFlightAttempts) <= 1)
    /\ [][\A a \in 1..Len(attempts) :
            (providerResume(a) /\ \A b \in 1..Len(attempts) : attempts'[b].pc # "awaiting")
               => a = Len(attempts)]_vars

\* the provider is mounted or given another config: the effect runs
EffectRuns == provider'.mounted /\ (~provider.mounted \/ provider'.config # provider.config)

\* C30: a run of the effect - on mount or on a change of config - that
\* finds a ready client registered, whatever call created it, publishes that
\* client with isInitialized true, leaves the client's config as the call
\* that created it gave it, and makes no initFhevm call and so no probe; a
\* run that finds none makes one initFhevm call with the provider's current
\* config, which probes once.
C30_ReusesReadySingleton ==
    [][EffectRuns =>
         IF getFhevmClient # Null /\ clients[getFhevmClient].isInitialized
         THEN /\ provider'.client = getFhevmClient
              /\ provider'.isInitialized
              /\ UNCHANGED <<globalInstance, clients, calls>>
              /\ \E i \in 1..Len(calls) :
                    /\ calls[i].client = provider'.client
                    /\ calls[i].probes = 1
                    /\ clients'[provider'.client].config = calls[i].config
         ELSE /\ Len(calls') = Len(calls) + 1
              /\ calls'[Len(calls')].config = provider'.config
              /\ calls'[Len(calls')].probes = 1
              /\ calls'[Len(calls')].pc = "probing"]_vars

\* a mounted provider none of whose own runs of initialize() awaited
\* initFhevm to the end publishes, as ready, the registered client, whose
\* config is not the provider's
C30_Witness ==
    /\ provider.mounted
    /\ provider.isInitialized
    /\ provider.client # Null
    /\ provider.client = getFhevmClient
    /\ clients[provider.client].config # provider.config
    /\ \A a \in 1..Len(attempts) : attempts[a].pc = "orphaned"

(***************************************************************************)
(* Properties of unmounting.                                               *)
(***************************************************************************)
\* C31: no call that settles after its component was unmounted issues an
\* update of that component's state: neither the in-flight flag, the error
\* or the result of a hook instance nor the client, the ready flag, the
\* initializing flag or the error of a provider.
C31_LateOutcomeDiscarded == lateUpdates = {}

(***************************************************************************)
(* Invariants of the client registry and of the published state.           *)
(***************************************************************************)
\* C32: getFhevmClient() returns null or a client whose isInitialized is
\* true; every client an initFhevm call returned has isInitialized true;
\* and once getFhevmClient() returns a client no step makes it return null.
C32_RegistryHoldsReadyClient ==
    /\ [](getFhevmClient # Null => clients[getFhevmClient].isInitialized)
    /\ [](\A i \in InitFhevmCalls :
            calls[i].pc = "resolved"
               => /\ calls[i].returned # Null
                  /\ clients[calls[i].returned].isInitialized)
    /\ [][getFhevmClient # Null => getFhevmClient' # Null]_vars

\* a client is registered, and a later call's probe has failed and another
\* call is probing without having changed what is registered
C32_Witness ==
    /\ getFhevmClient # Null
    /\ \E i, j \in InitFhevmCalls :
          /\ calls[i].pc = "rejected"
          /\ calls[j].pc = "probing"
          /\ ~clients[calls[i].client].isInitialized
          /\ ~clients[calls[j].client].isInitialized

\* C33: what a mounted provider publishes satisfies, in every state:
\* isInitialized true implies a client that is not null and is ready, and
\* isInitializing false with isInitialized false implies an error that is
\* not null.
C33_PublishedStateConsistent ==
    provider.mounted =>
       LET context == useContext(TRUE)
       IN /\ context.isInitialized
                => /\ context.client # Null
                   /\ clients[context.client].isInitialized
          /\ (~context.isInitializing /\ ~context.isInitialized)
                => context.error # NoError

\* a provider that publishes a failed initialization while a settled
\* earlier attempt has left it a client, and one that publishes a ready
\* client after a change of config
C33_Witness ==
    /\ provider.mounted
    /\ ~provider.isInitializing
    /\ ~provider.isInitialized
    /\ provider.error # NoError
    /\ provider.client # Null
    /\ Len(attempts) >= 2

\* C34: in every step in which a call of a hook instance completes and
\* leaves no call of that instance in flight, the instance's error is
\* non-null exactly when that call - the most recently completed one -
\* failed, and its result is the value the call returned when it succeeded
\* and the result it had before when it failed.
C34_StateReflectsLastCall ==
    [][\A k \in 1..Len(hookCalls') :
          (/\ hookCalls'[k].pc \in {"resolved", "rejected"}
           /\ (k > Len(hookCalls) \/ hookCalls[k].pc = "pending")
           /\ \A j \in 1..Len(hookCalls') :
                 (hookCalls'[j].hook = "encrypt" <=> hookCalls'[k].hook = "encrypt")
                    => hookCalls'[j].pc # "pending")
             => IF hookCalls'[k].hook = "encrypt"
                THEN /\ encryptHook'.error # NoError <=> hookCalls'[k].pc = "rejected"
                     /\ encryptHook'.result =
                           (IF hookCalls'[k].pc = "resolved"
                            THEN encrypt(hookCalls'[k].value, hookCalls'[k].type)
                            ELSE encryptHook.result)
                ELSE /\ decryptHook'.error # NoError <=> hookCalls'[k].pc = "rejected"
                     /\ IF hookCalls'[k].pc = "resolved"
                        THEN decryptHook'.result.status = "resolved"
                        ELSE decryptHook'.result = decryptHook.result]_vars

MatchesOfListing(l) == {m \in StoredMatches : matches[m].listingId = l}
MatchesOfRequest(r) == {m \in StoredMatches : matches[m].requestId = r}
MatchedListings == {l \in ListingIds : listings[l].isMatched}
MatchedRequests == {r \in RequestIds : requests[r].isMatched}

\* C35: every match references an existing listing and an existing request
\* that both have isMatched set, and its landlord and tenant are their
\* owners; every listing and request with isMatched set is referenced by
\* exactly one match; there are as many matches as matched listings and as
\* matched requests.
C35_MatchesAgreeWithFlags ==
    /\ \A m \in StoredMatches :
          /\ matches[m].listingId \in StoredListings
          /\ matches[m].requestId \in StoredRequests
          /\ listings[matches[m].listingId].isMatched
          /\ requests[matches[m].requestId].isMatched
          /\ matches[m].landlord = listings[matches[m].listingId].landlord
          /\ matches[m].tenant = requests[matches[m].requestId].tenant
    /\ \A l \in MatchedListings : Cardinality(MatchesOfListing(l)) = 1
    /\ \A r \in MatchedRequests : Cardinality(MatchesOfRequest(r)) = 1
    /\ Cardinality(StoredMatches) = Cardinality(MatchedListings)
    /\ Cardinality(StoredMatches) = Cardinality(MatchedRequests)

\* a match beside a record that exists and is not matched
C35_Witness ==
    /\ StoredMatches # {}
    /\ \/ StoredListings \ MatchedListings # {}
       \/ StoredRequests \ MatchedRequests # {}

\* matches whose listing and request belong to one identity
SelfMatches == {m \in StoredMatches : matches[m].landlord = matches[m].tenant}

\* C36: an identity that owns an active unmatched listing and an active
\* unmatched request may create their match; on such a match its first
\* confirmMatch sets landlordConfirmed and nothing else, every later
\* confirmMatch by it is refused, and tenantConfirmed and isConfirmed are
\* false in every state.
C36_SelfMatchNeverConfirmed ==
    /\ [](\A l \in StoredListings, r \in StoredRequests :
             (/\ listings[l].landlord = requests[r].tenant
              /\ listings[l].isActive /\ requests[r].isActive
              /\ ~listings[l].isMatched /\ ~requests[r].isMatched)
                => createMatchRevert(listings[l].landlord, l, r) = "")
    /\ [](\A m \in SelfMatches :
             /\ ~matches[m].tenantConfirmed
             /\ ~matches[m].isConfirmed
             /\ confirmMatchRevert(matches[m].landlord, m) =
                   (IF matches[m].landlordConfirmed
                    THEN "Already confirmed by landlord" ELSE ""))
    /\ [][\A m \in SelfMatches :
             confirmMatch(matches[m].landlord, m)
                => /\ ~matches[m].landlordConfirmed
                   /\ matches'[m] = [matches[m] EXCEPT !.landlordConfirmed = TRUE]]_vars

\* a match of one identity with itself after that identity's first
\* confirmMatch
C36_Witness ==
    \E m \in SelfMatches :
       /\ matches[m].landlordConfirmed
       /\ ~matches[m].tenantConfirmed
       /\ ~matches[m].isConfirmed

\* what createMatch reads of a listing and of a request besides the four
\* stored values
ListingStatus(l) ==
    [isActive |-> listings[l].isActive, isMatched |-> listings[l].isMatched,
     landlord |-> listings[l].landlord]
RequestStatus(r) ==
    [isActive |-> requests[r].isActive, isMatched |-> requests[r].isMatched,
     tenant |-> requests[r].tenant]

NoneCompatible(l, r) ==
    /\ ~compatibility(l, r).priceMatch
    /\ ~compatibility(l, r).bedroomMatch
    /\ ~compatibility(l, r).typeMatch
    /\ ~compatibility(l, r).postalMatch

\* C37: a createMatch call succeeds or fails in the same way for any two
\* listings, and any two requests, that differ only in their stored price,
\* bedroom, postal-code and property-type values; a call by an owner of
\* either record on active unmatched records succeeds; a successful call stores
\* a match of the two ids and the two owners with the three flags false and
\* marks both records, whatever the four comparisons give.
C37_MatchIgnoresStoredValues ==
    /\ [](\A l1 \in StoredListings, l2 \in StoredListings :
             (l1 < l2 /\ ListingStatus(l1) = ListingStatus(l2))
                => \A sender \in Addresses, r \in RequestIds :
                      createMatchRevert(sender, l1, r) = createMatchRevert(sender, l2, r))
    /\ [](\A r1 \in StoredRequests, r2 \in StoredRequests :
             (r1 < r2 /\ RequestStatus(r1) = RequestStatus(r2))
                => \A sender \in Addresses, l \in ListingIds :
                      createMatchRevert(sender, l, r1) = createMatchRevert(sender, l, r2))
    /\ [](\A sender \in Addresses, l \in StoredListings, r \in StoredRequests :
             (/\ listings[l].isActive /\ ~listings[l].isMatched
              /\ requests[r].isActive /\ ~requests[r].isMatched
              /\ sender \in {listings[l].landlord, requests[r].tenant})
                => createMatchRevert(sender, l, r) = "")
    /\ [][matchCounter' # matchCounter
             => \E sender \in Addresses, l \in StoredListings, r \in StoredRequests :
                   /\ createMatch(sender, l, r)
                   /\ matches'[matchCounter] =
                         [listingId |-> l, requestId |-> r,
                          landlord |-> listings[l].landlord,
                          tenant |-> requests[r].tenant,
                          isConfirmed |-> FALSE, landlordConfirmed |-> FALSE,
                          tenantConfirmed |-> FALSE]
                   /\ listings'[l] = [listings[l] EXCEPT !.isMatched = TRUE]
                   /\ requests'[r] = [requests[r] EXCEPT !.isMatched = TRUE]]_vars

\* a match of a listing and a request for which none of the four
\* comparisons holds, beside a listing of the same landlord with other
\* stored values
C37_Witness ==
    \E m \in StoredMatches :
       /\ NoneCompatible(matches[m].listingId, matches[m].requestId)
       /\ \E l \in StoredListings :
             /\ listings[l].landlord = matches[m].landlord
             /\ listings[l].encryptedPrice # listings[matches[m].listingId].encryptedPrice

SettledEncryptCalls == {k \in 1..Len(encryptCalls) : encryptCalls[k].pc = "settled"}

\* C38: the outcome of every encrypt call on a client is the value of one
\* function of the call's value and type, whichever config the client was
\* created with and whatever calls were made before it or are in flight
\* beside it, so any two calls with the same value and type have the same
\* outcome; and a step of an encrypt call issues no gateway request: it
\* leaves the health probes and the decrypt calls as they are.
C38_EncryptDependsOnArgumentsOnly ==
    /\ [](\A k \in SettledEncryptCalls :
             encryptCalls[k].outcome = encrypt(encryptCalls[k].value, encryptCalls[k].type))
    /\ [](\A j \in SettledEncryptCalls, k \in SettledEncryptCalls :
             (/\ encryptCalls[j].value = encryptCalls[k].value
              /\ encryptCalls[j].type = encryptCalls[k].type)
                => encryptCalls[j].outcome = encryptCalls[k].outcome)
    /\ [][encryptCalls' # encryptCalls => UNCHANGED <<registryVars, decryptVars>>]_vars

\* two encrypt calls with the same arguments on clients of different
\* configs, one of which logs, settled with a ciphertext while a decrypt
\* call awaits the gateway
C38_Witness ==
    /\ decrypting # NoDecrypt
    /\ \E j \in SettledEncryptCalls, k \in SettledEncryptCalls :
          /\ encryptCalls[j].value = encryptCalls[k].value
          /\ encryptCalls[j].type = encryptCalls[k].type
          /\ encryptCalls[j].config.gatewayUrl # encryptCalls[k].config.gatewayUrl
          /\ encryptCalls[j].config.network # encryptCalls[k].config.network
          /\ encryptCalls[j].logged /\ ~encryptCalls[k].logged
          /\ encryptCalls[j].outcome.status = "resolved"

====
